---- MODULE Spec2Model ----
(***************************************************************************)
(* A model of the request side of jtwatson/twiml: Request.ValidatePost     *)
(* (src/request.go) together with the field validators it dispatches to    *)
(* (src/unnamed/part_000).                                                 *)
(*                                                                         *)
(* Go strings are modelled as sequences of one-character strings, ordered  *)
(* by their byte values (Ascii below), so that concatenation, sorting and  *)
(* parsing are computed character by character as the code computes them.  *)
(***************************************************************************)
EXTENDS Integers, Sequences, FiniteSets, TLC

(***************************************************************************)
(* Bounds of the model.                                                    *)
(***************************************************************************)
\* How many key=value segments a request body holds at most.
MaxPairs == 2
\* How many times ValidatePost is called on one Request.
MaxCalls == 2

(***************************************************************************)
(* Strings.                                                                *)
(***************************************************************************)
\* The printable ASCII characters in byte order; Ascii[i] has byte value i + 31.
\* The double quote, the backslash and the backtick are written by name.
Ascii ==
  << " ", "!", "dquote", "#", "$", "%", "&", "'", "(", ")", "*", "+", ",", "-", ".", "/",
     "0", "1", "2", "3", "4", "5", "6", "7", "8", "9", ":", ";", "<", "=", ">", "?",
     "@", "A", "B", "C", "D", "E", "F", "G", "H", "I", "J", "K", "L", "M", "N", "O",
     "P", "Q", "R", "S", "T", "U", "V", "W", "X", "Y", "Z", "[", "backslash", "]", "^", "_",
     "backtick", "a", "b", "c", "d", "e", "f", "g", "h", "i", "j", "k", "l", "m", "n", "o",
     "p", "q", "r", "s", "t", "u", "v", "w", "x", "y", "z", "{", "|", "}", "~" >>

Chars == {Ascii[i] : i \in 1..Len(Ascii)}

\* The byte value of a character.
ByteOf == [c \in Chars |-> 31 + (CHOOSE i \in 1..Len(Ascii) : Ascii[i] = c)]

EmptyString == << >>

\* Go's s < t on strings: byte-wise lexicographic, a proper prefix first.
RECURSIVE StrLess(_, _)
StrLess(s, t) ==
  IF t = << >> THEN FALSE
  ELSE IF s = << >> THEN TRUE
  ELSE IF ByteOf[Head(s)] # ByteOf[Head(t)] THEN ByteOf[Head(s)] < ByteOf[Head(t)]
  ELSE StrLess(Tail(s), Tail(t))

\* strings.HasPrefix
HasPrefix(s, p) == Len(s) >= Len(p) /\ SubSeq(s, 1, Len(p)) = p

\* strings.Index for a one-character separator: the first position, 0 when absent.
IndexOf(s, c) ==
  IF \E i \in 1..Len(s) : s[i] = c
  THEN CHOOSE i \in 1..Len(s) : s[i] = c /\ \A j \in 1..(i - 1) : s[j] # c
  ELSE 0

\* strings.LastIndex for a one-character separator: the last position, 0 when absent.
LastIndexOf(s, c) ==
  IF \E i \in 1..Len(s) : s[i] = c
  THEN CHOOSE i \in 1..Len(s) : s[i] = c /\ \A j \in (i + 1)..Len(s) : s[j] # c
  ELSE 0

\* s[from:] in Go terms, positions counted from 1.
Suffix(s, from) == SubSeq(s, from, Len(s))

UpperLetters == {Ascii[i] : i \in 34..59}
DigitChars == {Ascii[i] : i \in 17..26}

\* strings.ToLower on ASCII: an upper-case letter moves 32 byte values up.
LowerChar(c) == IF c \in UpperLetters THEN Ascii[ByteOf[c] - 31 + 32] ELSE c
ToLower(s) == [i \in 1..Len(s) |-> LowerChar(s[i])]

(***************************************************************************)
(* sort.Strings: an insertion sort of a string slice.                      *)
(***************************************************************************)
RECURSIVE Insert(_, _)
Insert(sorted, p) ==
  IF sorted = << >> THEN << p >>
  ELSE IF StrLess(p, Head(sorted)) THEN << p >> \o sorted
  ELSE << Head(sorted) >> \o Insert(Tail(sorted), p)

RECURSIVE SortStrings(_)
SortStrings(params) ==
  IF params = << >> THEN << >>
  ELSE Insert(SortStrings(Tail(params)), Head(params))

\* Whether a slice of strings is in strictly ascending order.
InOrder(params) ==
  \A i \in 1..Len(params) : \A j \in (i + 1)..Len(params) : StrLess(params[i], params[j])

\* Every order in which a range loop may hand out the keys of a Go map.
RangeOrders(keys) ==
  {o \in [1..Cardinality(keys) -> keys] : \A i, j \in DOMAIN o : i # j => o[i] # o[j]}

(***************************************************************************)
(* Errors.  A Go error is modelled by the facts it carries: its kind, the  *)
(* text the code formats and the values it embeds.                         *)
(***************************************************************************)
\* The nil error of a validator.
NoError == [text |-> "nil", char |-> ""]
\* errors.New(text)
NewError(text) == [text |-> text, char |-> ""]
\* fmt.Errorf("invalid: character '%s' is not allowed", string(c))
CharacterError(c) == [text |-> "invalid: character is not allowed", char |-> c]

allowempty == "allowempty"

(***************************************************************************)
(* The phone-number capability (github.com/ttacon/libphonenumber), as the  *)
(* code uses it with default region "US".  The library is not part of the  *)
(* repository; it is modelled for the North American numbering plan: an    *)
(* optional "+1" or "1" followed by ten digits NXX NXX XXXX with N in 2..9. *)
(* Numbers of other regions and punctuation are outside the model's inputs.*)
(***************************************************************************)
AllDigits(s) == \A i \in 1..Len(s) : s[i] \in DigitChars

\* libphonenumber.Parse(num, "US"): the national number, or failure.
LibParse(num) ==
  LET national ==
        IF HasPrefix(num, << "+", "1" >>) THEN Suffix(num, 3)
        ELSE IF Len(num) = 11 /\ HasPrefix(num, << "1" >>) THEN Suffix(num, 2)
        ELSE num
  IN IF Len(national) >= 3 /\ AllDigits(national)
     THEN [ok |-> TRUE, national |-> national]
     ELSE [ok |-> FALSE, national |-> << >>]

\* libphonenumber.IsValidNumber for a parsed US number.
LibIsValidNumber(n) ==
  /\ Len(n.national) = 10
  /\ n.national[1] \notin {"0", "1"}
  /\ n.national[4] \notin {"0", "1"}

\* libphonenumber.Format(num, E164)
LibFormatE164(n) == << "+", "1" >> \o n.national

\* validatePhoneNumber on what libphonenumber.Parse returned.
validateParsedNumber(n) ==
  IF ~n.ok THEN NewError("invalid phone number")
  ELSE IF ~LibIsValidNumber(n) THEN NewError("invalid phone number")
  ELSE NoError

validatePhoneNumber(num) == validateParsedNumber(LibParse(num))

\* The string case of the type switch: ValidatePost always passes a string.
validPhoneNumber(v, param) ==
  IF v = EmptyString
  THEN IF param = allowempty THEN NoError ELSE NewError("Required")
  ELSE validatePhoneNumber(v)

(***************************************************************************)
(* Digits: a whitelist of key-pad characters.                              *)
(***************************************************************************)
\* characterList as it would be going through s from its end.
RECURSIVE characterListFromEnd(_, _)
characterListFromEnd(s, charList) ==
  IF s = << >> THEN NoError
  ELSE IF s[Len(s)] \notin charList THEN CharacterError(s[Len(s)])
  ELSE characterListFromEnd(SubSeq(s, 1, Len(s) - 1), charList)

\* The first character of s, left to right, that is not in charList.
RECURSIVE characterList(_, _)
characterList(s, charList) ==
  IF s = << >> THEN NoError
  ELSE IF Head(s) \notin charList THEN CharacterError(Head(s))
  ELSE characterList(Tail(s), charList)

KeyPadChars == DigitChars \cup {"#", "*"}

validateNumericPoundStar(v) == characterList(v, KeyPadChars)

validateKeyPadEntry(v, param) ==
  IF v = EmptyString
  THEN IF param = allowempty THEN NoError ELSE NewError("Required")
  ELSE validateNumericPoundStar(v)

(***************************************************************************)
(* net/url's Parse, for the strings parseSIPURI hands it.  The library is  *)
(* not part of the repository; it is modelled for printable ASCII without  *)
(* percent-escapes: the fragment and the query are cut off, the scheme is  *)
(* read, and what follows "//" is split into user-info, host and path.     *)
(* Each step of the parse is an operator that takes what the steps before  *)
(* it have computed.                                                       *)
(***************************************************************************)
LowerLetters == {Ascii[i] : i \in 66..91}
Letters == LowerLetters \cup UpperLetters

\* The zero url.URL, with the parse's verdict.
ZeroURL ==
  [ok |-> TRUE, Scheme |-> << >>, Opaque |-> << >>, HasUser |-> FALSE,
   Username |-> << >>, HasPassword |-> FALSE, Password |-> << >>,
   Host |-> << >>, Path |-> << >>, RawQuery |-> << >>, Fragment |-> << >>]

BadURL == [ZeroURL EXCEPT !.ok = FALSE]

\* strings.Cut(s, sep) at position i of the separator (0: not found).
CutBefore(s, i) == IF i = 0 THEN s ELSE SubSeq(s, 1, i - 1)
CutAfter(s, i) == IF i = 0 THEN << >> ELSE Suffix(s, i + 1)

\* getScheme: the positions at which its loop over the characters returns.
SchemeStops(rawURL) ==
  {i \in 1..Len(rawURL) :
     /\ rawURL[i] \notin Letters
     /\ (i = 1 \/ rawURL[i] \notin (DigitChars \cup {"+", "-", "."}))}

\* getScheme, returning at position i.
getSchemeAt(rawURL, i) ==
  IF rawURL[i] # ":" THEN [ok |-> TRUE, scheme |-> << >>, rest |-> rawURL]
  ELSE IF i = 1 THEN [ok |-> FALSE, scheme |-> << >>, rest |-> << >>]
  ELSE [ok |-> TRUE, scheme |-> SubSeq(rawURL, 1, i - 1), rest |-> Suffix(rawURL, i + 1)]

getSchemeIn(rawURL, stops) ==
  IF stops = {} THEN [ok |-> TRUE, scheme |-> << >>, rest |-> rawURL]
  ELSE getSchemeAt(rawURL, CHOOSE k \in stops : \A j \in stops : k <= j)

getScheme(rawURL) == getSchemeIn(rawURL, SchemeStops(rawURL))

\* validOptionalPort: "" or ":" followed by digits only.
validOptionalPort(port) ==
  port = << >> \/ (Head(port) = ":" /\ AllDigits(Tail(port)))

\* The characters net/url rejects in a host name.
BadHostChars == {" ", "#", "%", "/", "?", "@", "backslash", "^", "backtick", "{", "|", "}"}

\* parseHost, as its verdict; colon and close are the last ":" and "]".
parseHostAt(host, colon, close) ==
  IF HasPrefix(host, << "[" >>)
  THEN close # 0 /\ validOptionalPort(Suffix(host, close + 1))
  ELSE /\ (colon # 0 => validOptionalPort(Suffix(host, colon)))
       /\ \A i \in 1..Len(host) : host[i] \notin BadHostChars

parseHost(host) == parseHostAt(host, LastIndexOf(host, ":"), LastIndexOf(host, "]"))

\* validUserinfo
UserinfoChars ==
  Letters \cup DigitChars \cup
  {"-", ".", "_", ":", "~", "!", "$", "&", "'", "(", ")", "*", "+", ",", ";", "=", "%", "@"}

\* parseAuthority with a user-info; colon is the first ":" of it.
parseUserinfo(u, userinfo, colon) ==
  IF \E i \in 1..Len(userinfo) : userinfo[i] \notin UserinfoChars THEN BadURL
  ELSE IF colon = 0 THEN [u EXCEPT !.HasUser = TRUE, !.Username = userinfo]
  ELSE [u EXCEPT !.HasUser = TRUE, !.Username = SubSeq(userinfo, 1, colon - 1),
                 !.HasPassword = TRUE, !.Password = Suffix(userinfo, colon + 1)]

\* parseAuthority; at is the last "@" of the authority.
parseAuthorityAt(u, authority, at) ==
  IF ~parseHost(Suffix(authority, at + 1)) THEN BadURL
  ELSE IF at = 0 THEN [u EXCEPT !.Host = authority]
  ELSE parseUserinfo([u EXCEPT !.Host = Suffix(authority, at + 1)],
                     SubSeq(authority, 1, at - 1),
                     IndexOf(SubSeq(authority, 1, at - 1), ":"))

parseAuthority(u, authority) == parseAuthorityAt(u, authority, LastIndexOf(authority, "@"))

\* The path set on a URL whose authority has parsed.
WithPath(a, path) == IF a.ok THEN [a EXCEPT !.Path = path] ELSE BadURL

\* What follows "//": the authority up to the first "/", the path from it on.
parseAfterSlashes(u, afterSlashes, pathAt) ==
  WithPath(parseAuthority(u, CutBefore(afterSlashes, pathAt)),
           IF pathAt = 0 THEN << >> ELSE Suffix(afterSlashes, pathAt))

\* parse, after the scheme and the query have been taken off: u holds them,
\* rest is what is left.
parseRest(u, rest) ==
  IF ~HasPrefix(rest, << "/" >>) /\ u.Scheme # << >> THEN [u EXCEPT !.Opaque = rest]
  ELSE IF ~HasPrefix(rest, << "/" >>) /\ IndexOf(CutBefore(rest, IndexOf(rest, "/")), ":") # 0
  THEN BadURL
  ELSE IF HasPrefix(rest, << "/", "/" >>)
          /\ (u.Scheme # << >> \/ ~HasPrefix(rest, << "/", "/", "/" >>))
  THEN parseAfterSlashes(u, Suffix(rest, 3), IndexOf(Suffix(rest, 3), "/"))
  ELSE [u EXCEPT !.Path = rest]

\* parse, after getScheme; q is the first "?" of what follows the scheme.
parseScheme(sch, q, frag) ==
  IF ~sch.ok THEN BadURL
  ELSE parseRest([ZeroURL EXCEPT !.Scheme = ToLower(sch.scheme),
                                 !.RawQuery = CutAfter(sch.rest, q),
                                 !.Fragment = frag],
                 CutBefore(sch.rest, q))

parseNoFrag(sch, frag) == parseScheme(sch, IndexOf(sch.rest, "?"), frag)

\* url.Parse; hash is the first "#".
UrlParseAt(rawURL, hash) ==
  parseNoFrag(getScheme(CutBefore(rawURL, hash)), CutAfter(rawURL, hash))

UrlParse(rawURL) == UrlParseAt(rawURL, IndexOf(rawURL, "#"))

\* url.Userinfo.String(), read here only for being empty: a nil *Userinfo
\* and an empty user name without password both give "".
UserString(u) ==
  IF ~u.HasUser THEN << >>
  ELSE u.Username \o (IF u.HasPassword THEN << ":" >> \o u.Password ELSE << >>)

(***************************************************************************)
(* The SIP URI micro-grammar.                                              *)
(***************************************************************************)
SipPrefix == << "s", "i", "p" >>
SipColon == << "s", "i", "p", ":" >>
SipsColon == << "s", "i", "p", "s", ":" >>
SipScheme == << "s", "i", "p" >>
SipsScheme == << "s", "i", "p", "s" >>

InvalidSIPURI == NewError("invalid SIP URI")

\* Insert the // after the scheme: strings.Replace(uri, "sips:", "sips://", 1)
\* on a string with that prefix, and the same for "sip:".
InsertSlashes(uri) ==
  IF HasPrefix(uri, SipsColon) THEN SipsColon \o << "/", "/" >> \o Suffix(uri, 6)
  ELSE IF HasPrefix(uri, SipColon) THEN SipColon \o << "/", "/" >> \o Suffix(uri, 5)
  ELSE uri

\* CheckSIPURL as it would be without the test of the path.
CheckSIPURLAnyPath(u) ==
  IF ~u.ok THEN [err |-> InvalidSIPURI, u |-> ZeroURL]
  ELSE IF u.Scheme # SipScheme /\ u.Scheme # SipsScheme THEN [err |-> InvalidSIPURI, u |-> u]
  ELSE IF u.Opaque # << >> THEN [err |-> InvalidSIPURI, u |-> u]
  ELSE IF u.Host = << >> \/ UserString(u) = << >> THEN [err |-> InvalidSIPURI, u |-> u]
  ELSE [err |-> NoError, u |-> u]

\* The checks of parseSIPURI on the parsed URL.
CheckSIPURL(u) ==
  IF ~u.ok THEN [err |-> InvalidSIPURI, u |-> ZeroURL]
  ELSE IF u.Scheme # SipScheme /\ u.Scheme # SipsScheme THEN [err |-> InvalidSIPURI, u |-> u]
  ELSE IF u.Path # << >> \/ u.Opaque # << >> THEN [err |-> InvalidSIPURI, u |-> u]
  ELSE IF u.Host = << >> \/ UserString(u) = << >> THEN [err |-> InvalidSIPURI, u |-> u]
  ELSE [err |-> NoError, u |-> u]

\* parseSIPURI on the lower-cased uri.
parseLowerSIPURI(lower) ==
  IF ~HasPrefix(lower, SipPrefix) THEN [err |-> InvalidSIPURI, u |-> ZeroURL]
  ELSE CheckSIPURL(UrlParse(InsertSlashes(lower)))

\* parseSIPURI as it would be without strings.ToLower.
parseSIPURICased(uri) == parseLowerSIPURI(uri)

\* The result of parseSIPURI: the error and the URL.
parseSIPURI(uri) == parseLowerSIPURI(ToLower(uri))

\* validSIPURI as it would be without the test of param.
validSIPURIRequired(v, param) ==
  IF v = EmptyString THEN NewError("Required") ELSE parseSIPURI(v).err

\* validSIPURI as it would be if it also required a numeric user part.
validSIPURINumericUser(v, param) ==
  IF v = EmptyString
  THEN IF param = allowempty THEN NoError ELSE NewError("Required")
  ELSE IF parseSIPURI(v).err = NoError /\ ~AllDigits(parseSIPURI(v).u.Username)
  THEN InvalidSIPURI
  ELSE parseSIPURI(v).err

\* The string case of the type switch.
validSIPURI(v, param) ==
  IF v = EmptyString
  THEN IF param = allowempty THEN NoError ELSE NewError("Required")
  ELSE parseSIPURI(v).err

\* validFromOrToAfter as it would be with the error of the SIP URI check
\* returned when both checks fail.
validFromOrToAfterSipError(err, v, param) ==
  IF err = NoError THEN [err |-> NoError, tried |-> << "phone" >>]
  ELSE [err |-> validSIPURI(v, param), tried |-> << "phone", "sip" >>]

\* validFromOrTo after the phone-number check has returned err: what it
\* returns, with the record of the checks it has made.
validFromOrToAfter(err, v, param) ==
  IF err = NoError THEN [err |-> NoError, tried |-> << "phone" >>]
  ELSE IF validSIPURI(v, param) = NoError
  THEN [err |-> NoError, tried |-> << "phone", "sip" >>]
  ELSE [err |-> err, tried |-> << "phone", "sip" >>]

validFromOrToTraced(v, param) == validFromOrToAfter(validPhoneNumber(v, param), v, param)

validFromOrTo(v, param) == validFromOrToTraced(v, param).err

(***************************************************************************)
(* ParseNumber: a raw From or To value classified as a phone number or as  *)
(* a SIP URI of the provider's routing domain.                             *)
(***************************************************************************)
\* strings.Split(s, sep) for a one-character sep; i is the first sep in s.
RECURSIVE Split(_, _)
SplitAt(s, sep, i) ==
  IF i = 0 THEN << s >>
  ELSE << SubSeq(s, 1, i - 1) >> \o Split(Suffix(s, i + 1), sep)

Split(s, sep) == SplitAt(s, sep, IndexOf(s, sep))

\* strings.Join(elems, sep)
RECURSIVE Join(_, _)
Join(elems, sep) ==
  IF elems = << >> THEN << >>
  ELSE IF Len(elems) = 1 THEN elems[1]
  ELSE elems[1] \o sep \o Join(Tail(elems), sep)

\* url.URL.Hostname(): stripPort(u.Host); colon and close are the first ":"
\* and the first "]" of the host.
stripPort(hostport, colon, close) ==
  IF colon = 0 THEN hostport
  ELSE IF close # 0
  THEN IF HasPrefix(hostport, << "[" >>) THEN SubSeq(hostport, 2, close - 1)
       ELSE SubSeq(hostport, 1, close - 1)
  ELSE SubSeq(hostport, 1, colon - 1)

Hostname(u) == stripPort(u.Host, IndexOf(u.Host, ":"), IndexOf(u.Host, "]"))

\* FormatNumber on what libphonenumber.Parse returned: the E.164 text, or
\* the number as given with an error.
FormatParsedNumber(number, n) ==
  IF ~n.ok THEN [num |-> number, err |-> NewError("Invalid phone number")]
  ELSE IF ~LibIsValidNumber(n) THEN [num |-> number, err |-> NewError("Invalid phone number")]
  ELSE [num |-> LibFormatE164(n), err |-> NoError]

FormatNumber(number) == FormatParsedNumber(number, LibParse(number))

TwilioCom == << "t", "w", "i", "l", "i", "o", ".", "c", "o", "m" >>
Dot == << "." >>

\* NewParsedNumber as it would be with the lower-cased text kept as Raw.
NewParsedNumberLowered(v) ==
  [Valid |-> FALSE, Number |-> v, SIP |-> FALSE, SIPDomain |-> EmptyString,
   Region |-> EmptyString, Raw |-> ToLower(v)]

\* number := &ParsedNumber{Number: v, Raw: v}
NewParsedNumber(v) ==
  [Valid |-> FALSE, Number |-> v, SIP |-> FALSE, SIPDomain |-> EmptyString,
   Region |-> EmptyString, Raw |-> v]

\* What ParseNumber returns, with the record of what it tried on the way.
Parsed(number, tried) == [number |-> number, tried |-> tried]

\* ParseNumberFormatted as it would be with the label after the marker as Region.
ParseNumberFormattedRegionAfter(number, parts, l, formatted, tried) ==
  IF formatted.err # NoError THEN Parsed(number, tried)
  ELSE Parsed([number EXCEPT !.Valid = TRUE,
                             !.SIP = TRUE,
                             !.Number = formatted.num,
                             !.SIPDomain = Join(SubSeq(parts, 1, l - 4), Dot),
                             !.Region = parts[l - 2]],
              tried)

\* ParseNumberFormatted as it would be with the SIP fields set ahead of the
\* check of FormatNumber's error.
ParseNumberFormattedEarly(number, parts, l, formatted, tried) ==
  Parsed([number EXCEPT !.Valid = (formatted.err = NoError),
                        !.SIP = TRUE,
                        !.Number = formatted.num,
                        !.SIPDomain = Join(SubSeq(parts, 1, l - 4), Dot),
                        !.Region = parts[l - 3]],
         tried)

\* ParseNumber once FormatNumber has returned for the user name.
ParseNumberFormatted(number, parts, l, formatted, tried) ==
  IF formatted.err # NoError THEN Parsed(number, tried)
  ELSE Parsed([number EXCEPT !.Valid = TRUE,
                             !.SIP = TRUE,
                             !.Number = formatted.num,
                             !.SIPDomain = Join(SubSeq(parts, 1, l - 4), Dot),
                             !.Region = parts[l - 3]],
              tried)

\* ParseNumberParts as it would be with four labels enough.
ParseNumberPartsFourLabels(number, u, parts, l) ==
  IF l < 4 \/ Join(SubSeq(parts, l - 1, l), Dot) # TwilioCom \/ parts[l - 3] # SipPrefix
  THEN Parsed(number, << "phone", "sip" >>)
  ELSE ParseNumberFormatted(number, parts, l, FormatNumber(u.Username),
                            << "phone", "sip", "format" >>)

\* ParseNumber once the host name has been split into parts, l of them.
ParseNumberParts(number, u, parts, l) ==
  IF l < 5 \/ Join(SubSeq(parts, l - 1, l), Dot) # TwilioCom \/ parts[l - 3] # SipPrefix
  THEN Parsed(number, << "phone", "sip" >>)
  ELSE ParseNumberFormatted(number, parts, l, FormatNumber(u.Username),
                            << "phone", "sip", "format" >>)

ParseNumberSplit(number, u, parts) == ParseNumberParts(number, u, parts, Len(parts))

\* ParseNumber once parseSIPURI has returned.
ParseNumberSIP(number, sip) ==
  IF sip.err # NoError THEN Parsed(number, << "phone", "sip" >>)
  ELSE ParseNumberSplit(number, sip.u, Split(Hostname(sip.u), "."))

\* ParseNumberAfterPhone as it would be with a phone number put into E.164.
ParseNumberAfterPhoneFormatted(number, v, err) ==
  IF err = NoError
  THEN Parsed([number EXCEPT !.Valid = TRUE, !.Number = FormatNumber(v).num], << "phone" >>)
  ELSE ParseNumberSIP(number, parseSIPURI(v))

\* ParseNumber once validPhoneNumber has returned err.
ParseNumberAfterPhone(number, v, err) ==
  IF err = NoError THEN Parsed([number EXCEPT !.Valid = TRUE], << "phone" >>)
  ELSE ParseNumberSIP(number, parseSIPURI(v))

ParseNumberTraced(v) == ParseNumberAfterPhone(NewParsedNumber(v), v, validPhoneNumber(v, ""))

\* func ParseNumber(v string) *ParsedNumber
ParseNumber(v) == ParseNumberTraced(v).number

(***************************************************************************)
(* RequestValues.CallDuration.  An int is 64 bits wide and a time.Duration *)
(* is an int64 count of nanoseconds; TLC's integers are narrower, so a     *)
(* number is kept as its sign and its decimal digits without leading       *)
(* zeros, and compared through its digits.                                 *)
(***************************************************************************)
\* s without its leading zeros; "0" for a string of zeros.
RECURSIVE StripZeros(_)
StripZeros(s) ==
  IF Len(s) > 1 /\ Head(s) = "0" THEN StripZeros(Tail(s)) ELSE s

\* a <= b for two numbers given by their digits without leading zeros.
DecimalLessEq(a, b) ==
  Len(a) < Len(b) \/ (Len(a) = Len(b) /\ (a = b \/ StrLess(a, b)))

\* 1<<63 - 1, the largest int.
MaxInt == << "9", "2", "2", "3", "3", "7", "2", "0", "3", "6",
             "8", "5", "4", "7", "7", "5", "8", "0", "7" >>

\* strconv.Atoi(s): an optional sign, then decimal digits and nothing else;
\* a syntax error for anything else, a range error beyond 64 bits.
Atoi(s) ==
  LET signed == s # << >> /\ Head(s) \in {"+", "-"}
      digits == IF signed THEN Tail(s) ELSE s
      n == [neg |-> signed /\ Head(s) = "-" /\ StripZeros(digits) # << "0" >>,
            digits |-> StripZeros(digits)]
  IN IF digits = << >> \/ ~AllDigits(digits)
     THEN [n |-> [neg |-> FALSE, digits |-> << "0" >>], err |-> NewError("invalid syntax")]
     ELSE IF ~DecimalLessEq(n.digits, MaxInt)
               /\ ~(n.neg /\ n.digits = SubSeq(MaxInt, 1, 18) \o << "8" >>)
     THEN [n |-> n, err |-> NewError("value out of range")]
     ELSE [n |-> n, err |-> NoError]

\* time.Second * time.Duration(duration): duration seconds when the count
\* of nanoseconds is an int64, which it is up to (1<<63 - 1) / 1e9 seconds,
\* the first ten digits of the largest int; the product wraps around
\* otherwise, and is then not duration seconds.
Seconds(duration) ==
  [neg |-> duration.neg, seconds |-> duration.digits,
   wrapped |-> ~DecimalLessEq(duration.digits, SubSeq(MaxInt, 1, 10))]

CallDurationName == << "C", "a", "l", "l", "D", "u", "r", "a", "t", "i", "o", "n" >>

\* r.CallDuration() for the RequestValues r; a field that is absent reads "".
CallDuration(r) ==
  LET field == IF CallDurationName \in DOMAIN r THEN r[CallDurationName] ELSE EmptyString
      zero == Seconds([neg |-> FALSE, digits |-> << "0" >>])
  IN IF field = EmptyString THEN [duration |-> zero, err |-> NoError]
     ELSE IF Atoi(field).err # NoError
     THEN [duration |-> zero,
           err |-> [text |-> "RequestValues.CallDuration()", char |-> "",
                    cause |-> Atoi(field).err]]
     ELSE [duration |-> Seconds(Atoi(field).n), err |-> NoError]

(***************************************************************************)
(* response.go: the verbs of a Response and its rendering.  A Verbs slice  *)
(* holds pointers; a Dial and a Gather, which have builder methods of      *)
(* their own, are kept by address in a heap, the other verbs by value.  A  *)
(* rendered document is kept line by line, as encoding/xml writes it with  *)
(* Indent("", "  "): the depth of the line, the kind of tag, the name, the *)
(* attributes and the character data.                                      *)
(***************************************************************************)
\* A verb in a Verbs slice: a value (ptr = 0) or the address of a Dial or
\* Gather.  An attribute is kept with its name, whether it is a uint, and its
\* text.
Verb(type, ptr, attrs, value) ==
  [type |-> type, ptr |-> ptr, attrs |-> attrs, value |-> value]

\* append(r.Verbs, verb) as it would be with the verb put in front.
PrependVerb(Verbs, verb) == << verb >> \o Verbs

\* append(r.Verbs, verb)
AppendVerb(Verbs, verb) == Append(Verbs, verb)

\* The attributes encoding/xml writes: with omitempty, a string attribute
\* that is "" and a uint attribute that is 0 are left out.
OmitEmpty(attrs) ==
  SelectSeq(attrs, LAMBDA a : a.value # (IF a.uint THEN "0" ELSE ""))

\* One element: on one line when it has no child elements, between a start
\* line and an end line around the lines of its children otherwise.
MarshalElement(indent, name, attrs, chardata, children) ==
  IF children = << >>
  THEN << [indent |-> indent, tag |-> "element", name |-> name,
           attrs |-> OmitEmpty(attrs), chardata |-> chardata] >>
  ELSE << [indent |-> indent, tag |-> "start", name |-> name,
           attrs |-> OmitEmpty(attrs), chardata |-> ""] >>
       \o children
       \o << [indent |-> indent, tag |-> "end", name |-> name,
              attrs |-> << >>, chardata |-> ""] >>

\* The elements of a Verbs slice, in the order of the slice; the verbs of a
\* Dial or Gather are read through its address.
RECURSIVE MarshalVerbs(_, _, _)
MarshalVerbs(h, indent, Verbs) ==
  IF Verbs = << >> THEN << >>
  ELSE MarshalElement(indent, Head(Verbs).type, Head(Verbs).attrs, Head(Verbs).value,
                      IF Head(Verbs).ptr = 0 THEN << >>
                      ELSE MarshalVerbs(h, indent + 1, h[Head(Verbs).ptr].Verbs))
         \o MarshalVerbs(h, indent, Tail(Verbs))

\* Response.Render for the Response at address 1 of the heap h: xml.Header,
\* then the Response element.  Encode returns no error for these types.
Render(h) ==
  << [indent |-> 0, tag |-> "header", name |-> "xml", attrs |-> << >>, chardata |-> ""] >>
    \o MarshalElement(0, "Response", << >>, "", MarshalVerbs(h, 1, h[1].Verbs))

(***************************************************************************)
(* response.go: conferenceCallbackEvents.                                  *)
(***************************************************************************)
\* strings.TrimLeft(s, " ")
RECURSIVE TrimLeft(_)
TrimLeft(s) == IF s # << >> /\ Head(s) = " " THEN TrimLeft(Tail(s)) ELSE s

\* An event method as it would be if an event already enabled were left out.
AddEventOnce(c, name) ==
  IF \E i \in 1..Len(c) : i + Len(name) - 1 <= Len(c) /\ SubSeq(c, i, i + Len(name) - 1) = name
  THEN c
  ELSE TrimLeft(c \o << " " >> \o name)

\* conferenceCallbackEvents(strings.TrimLeft(fmt.Sprintf("%s name", c), " "))
AddEvent(c, name) == TrimLeft(c \o << " " >> \o name)

(***************************************************************************)
(* The registry of field validators.                                       *)
(***************************************************************************)
FromName == << "F", "r", "o", "m" >>
ToName == << "T", "o" >>
DigitsName == << "D", "i", "g", "i", "t", "s" >>

\* var fieldValidators = map[string]valCfg{...}; valParam is unset everywhere.
fieldValidators ==
  [p \in {FromName, ToName, DigitsName} |->
     IF p = DigitsName
     THEN [valFunc |-> "validateKeyPadEntry", valParam |-> ""]
     ELSE [valFunc |-> "validFromOrTo", valParam |-> ""]]

\* valParam.valFunc(val, valParam.valParam)
CallValidator(cfg, val) ==
  IF cfg.valFunc = "validFromOrTo" THEN validFromOrTo(val, cfg.valParam)
  ELSE validateKeyPadEntry(val, cfg.valParam)

(***************************************************************************)
(* The signature.  crypto/hmac, crypto/sha1 and encoding/base64 are not    *)
(* part of the repository.  The keyed hash is modelled as an ideal MAC: the *)
(* base64 text of the digest is determined by exactly the key and the      *)
(* message, and two texts are equal only when both agree.                  *)
(***************************************************************************)
\* base64.StdEncoding.EncodeToString(hmac(sha1, authToken, message))
HmacSha1Base64(authToken, message) == [b64 |-> TRUE, key |-> authToken, msg |-> message]

\* var xTwilioSig string: the empty string.
EmptySigString == [b64 |-> FALSE, key |-> "", msg |-> << >>]

(***************************************************************************)
(* net/http: the request and ParseForm.                                    *)
(***************************************************************************)
\* url.URL.String() of a request URL: the path, and "?" with the query if any.
URLString(u) ==
  u.Path \o (IF u.RawQuery # << >> THEN << "?" >> \o u.RawQuery ELSE << >>)

\* The values of the well-formed segments of a body that are named k, in order.
RECURSIVE ValuesOf(_, _)
ValuesOf(body, k) ==
  IF body = << >> THEN << >>
  ELSE IF Head(body).ok /\ Head(body).name = k
  THEN << Head(body).value >> \o ValuesOf(Tail(body), k)
  ELSE ValuesOf(Tail(body), k)

\* url.ParseQuery on the body: every well-formed pair is kept, and the error
\* reports the first malformed segment.
ParseQuery(body) ==
  [m |-> [k \in {body[i].name : i \in {j \in 1..Len(body) : body[j].ok}}
            |-> ValuesOf(body, k)],
   err |-> \E i \in 1..Len(body) : ~body[i].ok]

\* url.ParseQuery on the query of the URL: malformed when it holds a ";" or "%".
QueryError(rawQuery) == \E i \in 1..Len(rawQuery) : rawQuery[i] \in {";", "%"}

\* http.Request.ParseForm: PostForm and Form are parsed once, when still nil;
\* an error is reported only by the call that parses.  q is what ParseQuery
\* makes of the body, read when the body is parsed.
ParseFormWith(r, parsesBody, q) ==
  [r |-> [r EXCEPT !.PostForm = IF r.PostFormSet THEN r.PostForm
                                ELSE IF parsesBody THEN q.m ELSE << >>,
                   !.PostFormSet = TRUE, !.FormSet = TRUE],
   err |-> (parsesBody /\ q.err) \/ (~r.FormSet /\ QueryError(r.URL.RawQuery))]

ParseForm(r) ==
  ParseFormWith(r, ~r.PostFormSet /\ r.Method \in {"POST", "PUT", "PATCH"},
                ParseQuery(r.Body))

(***************************************************************************)
(* Request.ValidatePost.                                                   *)
(***************************************************************************)
\* The error ValidatePost returns, by the facts it carries.
NilError ==
  [kind |-> "nil", method |-> "", calculated |-> EmptySigString,
   received |-> EmptySigString, field |-> << >>, value |-> << >>, cause |-> NoError]

\* "expected a POST request, received %s"
MethodError(method) == [NilError EXCEPT !.kind = "method", !.method = method]
\* errors.Wrap(err, "http.Request.ParseForm()")
DecodeError == [NilError EXCEPT !.kind = "decode"]
\* "calculated Signature: %s, failed to match X-Twilio-Signature: %s"
SignatureError(sig, xTwilioSig) ==
  [NilError EXCEPT !.kind = "signature", !.calculated = sig, !.received = xTwilioSig]
\* errors.Wrapf(err, "Invalid form value: %s=%s", p, val)
FieldError(p, val, err) ==
  [NilError EXCEPT !.kind = "field", !.field = p, !.value = val, !.cause = err]

\* One executed step of a call, for the record of what the call did.
Step(what, p) == [step |-> what, field |-> p]

\* req.Values[p] = val
MapSet(m, k, v) == [x \in (DOMAIN m) \cup {k} |-> IF x = k THEN v ELSE m[x]]

\* FirstValue as it would be if the last value of a field were taken.
FirstValueLast(PostForm, p) ==
  IF Len(PostForm[p]) > 0 THEN PostForm[p][Len(PostForm[p])] ELSE EmptyString

\* PostForm[p][0], or "" when the field has no value.
FirstValue(PostForm, p) ==
  IF Len(PostForm[p]) > 0 THEN PostForm[p][1] ELSE EmptyString

\* BuildMessage as it would be with "=" written between a name and its value.
RECURSIVE BuildMessageSeparated(_, _, _)
BuildMessageSeparated(message, params, PostForm) ==
  IF params = << >> THEN message
  ELSE BuildMessageSeparated(
         message \o Head(params) \o << "=" >> \o FirstValue(PostForm, Head(params)),
         Tail(params), PostForm)

\* BuildMessage as it would be with the names alone, the values left out.
RECURSIVE BuildMessageNames(_, _, _)
BuildMessageNames(message, params, PostForm) ==
  IF params = << >> THEN message
  ELSE BuildMessageNames(message \o Head(params), Tail(params), PostForm)

\* The loop that builds the message: for _, p := range params.
RECURSIVE BuildMessage(_, _, _)
BuildMessage(message, params, PostForm) ==
  IF params = << >> THEN message
  ELSE BuildMessage(message \o Head(params) \o FirstValue(PostForm, Head(params)),
                    Tail(params), PostForm)

\* RunValidator as it would be if an empty value were not handed to the validator.
RunValidatorSkipEmpty(p, val) ==
  IF p \in DOMAIN fieldValidators /\ val # EmptyString
  THEN CallValidator(fieldValidators[p], val) ELSE NoError

\* The validator registered for field p, run on val; nil for a field without one.
RunValidator(p, val) ==
  IF p \in DOMAIN fieldValidators THEN CallValidator(fieldValidators[p], val) ELSE NoError

\* The record of one pass of the loop for p: the validator is noted when one ran.
NoteValidation(log, p) ==
  IF p \in DOMAIN fieldValidators THEN Append(log, Step("validate", p)) ELSE log

\* The loop under "Validate data".  ValidateField is one pass of it for
\* p with its value val and its validator's verdict verr.
RECURSIVE ValidateData(_, _, _, _)
\* ValidateField as it would be with the copy inside the "if ok" block: only
\* the fields with a validator are copied.
ValidateFieldRegisteredOnly(params, PostForm, Values, log, p, val, verr) ==
  IF verr # NoError
  THEN [err |-> FieldError(p, val, verr), Values |-> Values, log |-> NoteValidation(log, p)]
  ELSE IF p \in DOMAIN fieldValidators
  THEN ValidateData(Tail(params), PostForm, MapSet(Values, p, val),
                    Append(NoteValidation(log, p), Step("copy", p)))
  ELSE ValidateData(Tail(params), PostForm, Values, log)

\* ValidateField as it would be with the error remembered and the loop going
\* on to the fields after it.
KeepError(error, rest) == [rest EXCEPT !.err = error]
ValidateFieldContinue(params, PostForm, Values, log, p, val, verr) ==
  IF verr # NoError
  THEN KeepError(FieldError(p, val, verr),
                 ValidateData(Tail(params), PostForm, Values, NoteValidation(log, p)))
  ELSE ValidateData(Tail(params), PostForm, MapSet(Values, p, val),
                    Append(NoteValidation(log, p), Step("copy", p)))

ValidateField(params, PostForm, Values, log, p, val, verr) ==
  IF verr # NoError
  THEN [err |-> FieldError(p, val, verr), Values |-> Values, log |-> NoteValidation(log, p)]
  ELSE ValidateData(Tail(params), PostForm, MapSet(Values, p, val),
                    Append(NoteValidation(log, p), Step("copy", p)))

ValidateData(params, PostForm, Values, log) ==
  IF params = << >> THEN [err |-> NilError, Values |-> Values, log |-> log]
  ELSE ValidateField(params, PostForm, Values, log, Head(params),
                     FirstValue(PostForm, Head(params)),
                     RunValidator(Head(params), FirstValue(PostForm, Head(params))))

\* SignatureMatches as it would be if any value of the header could match.
SignatureMatchesAnyValue(sig, xTwilioSigHdr) ==
  \E i \in 1..Len(xTwilioSigHdr) : sig = xTwilioSigHdr[i]

\* SignatureMatches as it would be with && for || in the test that rejects.
SignatureMatchesEither(sig, xTwilioSigHdr) ==
  Len(xTwilioSigHdr) = 1 \/ (Len(xTwilioSigHdr) > 0 /\ sig = xTwilioSigHdr[1])

\* The signature comparison: the header must hold exactly one value, equal to sig.
SignatureMatches(sig, xTwilioSigHdr) ==
  Len(xTwilioSigHdr) = 1 /\ sig = xTwilioSigHdr[1]

\* SortedParams as it would be without the call of sort.Strings.
SortedParamsAsRanged(order) == order

\* params after the range loop over PostForm (in the order the map hands out
\* its keys) and sort.Strings.
SortedParams(order) == SortStrings(order)

\* What a call that returns before the message is built leaves behind.
Returned(error, req, reqValues, log) ==
  [err |-> error, r |-> req, Values |-> reqValues, message |-> << >>, iter |-> << >>,
   log |-> log]

MethodStep == Step("method", << >>)
DecodeStep == Step("decode", << >>)
SignatureStep == Step("signature", << >>)

\* The call from "Validate data" on: data is what the loop returns.
AfterValidation(req, msg, order, data) ==
  [err |-> data.err, r |-> req, Values |-> data.Values, message |-> msg,
   iter |-> order, log |-> data.log]

\* CheckSignature as it would be with the data loop run ahead of the comparison.
CheckSignatureCopyFirst(req, reqValues, order, params, msg, sig) ==
  IF ~SignatureMatches(sig, req.Header)
  THEN [err |-> SignatureError(sig, IF Len(req.Header) = 1 THEN req.Header[1]
                                    ELSE EmptySigString),
        r |-> req,
        Values |-> ValidateData(params, req.PostForm, reqValues, << >>).Values,
        message |-> msg, iter |-> order,
        log |-> << MethodStep, DecodeStep, SignatureStep >>]
  ELSE AfterValidation(req, msg, order,
                       ValidateData(params, req.PostForm, reqValues,
                                    << MethodStep, DecodeStep, SignatureStep >>))

\* The call from the comparison with the header on: sig has been computed
\* over msg, params are the sorted field names.
CheckSignature(req, reqValues, order, params, msg, sig) ==
  IF ~SignatureMatches(sig, req.Header)
  THEN [err |-> SignatureError(sig, IF Len(req.Header) = 1 THEN req.Header[1]
                                    ELSE EmptySigString),
        r |-> req, Values |-> reqValues, message |-> msg, iter |-> order,
        log |-> << MethodStep, DecodeStep, SignatureStep >>]
  ELSE AfterValidation(req, msg, order,
                       ValidateData(params, req.PostForm, reqValues,
                                    << MethodStep, DecodeStep, SignatureStep >>))

\* The call once the message has been built.  hash.Write of an HMAC returns no
\* error and writes every byte, so the two returns after it are never taken.
SignMessage(req, reqValues, token, order, params, msg) ==
  CheckSignature(req, reqValues, order, params, msg, HmacSha1Base64(token, msg))

\* The call once the field names have been collected and sorted.
WithParams(url, req, reqValues, token, order, params) ==
  SignMessage(req, reqValues, token, order, params,
              BuildMessage(url, params, req.PostForm))

\* The call once ParseForm has returned.
AfterParseForm(url, parsed, reqValues, token, order) ==
  IF parsed.err
  THEN Returned(DecodeError, parsed.r, reqValues, << MethodStep, DecodeStep >>)
  ELSE WithParams(url, parsed.r, reqValues, token, order, SortedParams(order))

\* ValidatePostCall as it would be with ParseForm called ahead of the method check.
ValidatePostCallDecodeFirst(reqHost, req, reqValues, token, order) ==
  IF req.Method # "POST"
  THEN Returned(MethodError(req.Method), ParseForm(req).r, reqValues,
                << DecodeStep, MethodStep >>)
  ELSE AfterParseForm(reqHost \o URLString(req.URL), ParseForm(req), reqValues, token, order)

\* One call of ValidatePost on a Request (host, r, Values): what it returns
\* and what it leaves behind.  order is the order in which the range loop
\* over PostForm hands out the field names.
ValidatePostCall(reqHost, req, reqValues, token, order) ==
  IF req.Method # "POST"
  THEN Returned(MethodError(req.Method), req, reqValues, << MethodStep >>)
  ELSE AfterParseForm(reqHost \o URLString(req.URL), ParseForm(req), reqValues, token, order)

(***************************************************************************)
(* The inputs of the model.                                                *)
(***************************************************************************)
\* The auth tokens a caller may pass, and the keys a sender may sign with.
Tokens == {"K1", "K2"}

Hosts == {<< "h" >>}
URLs == {[Path |-> << "/" >>, RawQuery |-> << >>],
         [Path |-> << "/" >>, RawQuery |-> << "q" >>]}

PhoneNumber == << "+", "1", "8", "0", "0", "5", "6", "4", "2", "3", "6", "5" >>
SipURI == << "s", "i", "p", ":", "u", "@", "d" >>
AName == << "A" >>
ABName == << "A", "B" >>

Pair(name, value) == [ok |-> TRUE, name |-> name, value |-> value]
\* A segment url.ParseQuery rejects (an invalid percent-escape, a semicolon).
Malformed == [ok |-> FALSE, name |-> << >>, value |-> << >>]

Segments ==
  { Pair(FromName, PhoneNumber), Pair(FromName, << "x" >>),
    Pair(ToName, SipURI), Pair(ToName, << >>),
    Pair(DigitsName, << "1", "a" >>), Pair(DigitsName, << >>),
    Pair(AName, << "B", "x" >>), Pair(ABName, << "x" >>),
    Malformed }

Bodies == UNION {[1..n -> Segments] : n \in 0..MaxPairs}

\* A PostForm the caller has set on the request itself, with a field that has
\* no value at all.
PresetForms ==
  { [k \in {AName} |-> << >>],
    [k \in {AName, DigitsName} |-> IF k = AName THEN << >> ELSE << << "1", "#" >> >>] }

\* A request as the server hands it over: the body still to be parsed.
Received(m, u, b) ==
  [Method |-> m, URL |-> u, Header |-> << >>, Body |-> b,
   PostForm |-> << >>, PostFormSet |-> FALSE, FormSet |-> FALSE]

\* The requests: POST requests with a body, POST requests with a preset
\* PostForm, and requests of another method with at most one segment.
Requests ==
  {Received("POST", u, b) : u \in URLs, b \in Bodies}
  \cup {[Received("POST", u, << >>) EXCEPT !.PostForm = f, !.PostFormSet = TRUE]
          : u \in URLs, f \in PresetForms}
  \cup {Received("GET", u, b) : u \in URLs, b \in {c \in Bodies : Len(c) <= 1}}

\* The least of a non-empty set of strings.
MinString(S) == CHOOSE p \in S : \A q \in S : q = p \/ StrLess(p, q)

\* The canonical message of the documented scheme: the URL, then every field
\* name from the least to the greatest, each followed by its first value.
RECURSIVE CanonicalFields(_, _)
CanonicalField(names, form, p) ==
  p \o (IF form[p] = << >> THEN << >> ELSE Head(form[p]))
    \o CanonicalFields(names \ {p}, form)

CanonicalFields(names, form) ==
  IF names = {} THEN << >> ELSE CanonicalField(names, form, MinString(names))

\* The form the receiver will see of a request.
FormOf(req) == IF req.PostFormSet THEN req.PostForm ELSE ParseQuery(req.Body).m

CanonicalMessage(reqHost, req) ==
  reqHost \o req.URL.Path
    \o (IF req.URL.RawQuery = << >> THEN << >> ELSE << "?" >> \o req.URL.RawQuery)
    \o CanonicalFields(DOMAIN FormOf(req), FormOf(req))

\* m with the character at position i changed.
Tamper(m, i) == [m EXCEPT ![i] = IF m[i] = "~" THEN "!" ELSE "~"]

\* The single-character changes of a message that are tried: the last
\* character of the URL, the first character after it (of the first field
\* name) and the last character (of the last value, or name).
TamperedMessages(m, urlLen) ==
  {Tamper(m, i) : i \in {urlLen, urlLen + 1, Len(m)} \cap (1..Len(m))}

\* The X-Twilio-Signature header values of a request whose sender signed m:
\* none, the signature under either key, the signature of a tampered
\* message, and the right signature twice.
SignatureHeaders(m, urlLen) ==
  {<< >>}
  \cup {<< HmacSha1Base64(k, m) >> : k \in Tokens}
  \cup {<< HmacSha1Base64("K1", t) >> : t \in TamperedMessages(m, urlLen)}
  \cup {<< HmacSha1Base64("K1", m), HmacSha1Base64("K1", m) >>}

(***************************************************************************)
(* The state machine.                                                      *)
(***************************************************************************)
VARIABLES
  host,       \* Request.host
  r,          \* Request.r, the *http.Request
  Values,     \* Request.Values
  calls,      \* how many calls of ValidatePost have returned
  authToken,  \* the authToken of the last call
  err,        \* what the last call returned
  message,    \* the message the last call signed, << >> if it signed none
  shuffled,   \* whether the map handed out its keys out of order in the last call
  log,        \* the steps the last call executed
  arg,        \* the value a validator or ParseNumber is called with
  param,      \* the param a validator is called with
  fn,         \* the function that has been called on arg, "none" before the call
  ret,        \* what that function returned
  registry,   \* the package-level variable fieldValidators
  procs,      \* the calls of ValidatePost that run concurrently, each on its own Request
  heap,       \* the Response (at address 1) and the Dials and Gathers made, by address
  verbCalls,  \* the builder calls made, in call order: the receiver and the verb
  rendered,   \* what the calls of Render returned since the last builder call
  events,     \* the conferenceCallbackEvents value the chain of event methods has reached
  eventCalls  \* the event methods called, in call order

requestVars == << host, r, Values, calls, authToken, err, message, shuffled, log >>
callVars == << arg, param, fn, ret >>
sharedVars == << registry, procs >>
responseVars == << heap, verbCalls, rendered >>
eventVars == << events, eventCalls >>
vars == << requestVars, callVars, sharedVars, responseVars, eventVars >>

\* No concurrent calls: the registry as the package initialises it.
NoProcs == registry = fieldValidators /\ procs = << >>

\* No Response has been made, and no conferenceCallbackEvents.
NoResponse ==
  /\ heap = << >> /\ verbCalls = << >> /\ rendered = << >>
  /\ events = << >> /\ eventCalls = << >>

\* No function has been called on its own.
NoCall == arg = << >> /\ param = "" /\ fn = "none" /\ ret = NoError

\* No Request has been made.
NoRequest ==
  /\ host = << >>
  /\ r = Received("POST", [Path |-> << >>, RawQuery |-> << >>], << >>)
  /\ Values = << >>
  /\ calls = 0
  /\ authToken = ""
  /\ err = NilError
  /\ message = << >>
  /\ shuffled = FALSE
  /\ log = << >>

\* NewRequest(host, r)
Init ==
  /\ host \in Hosts
  /\ \E req \in Requests :
       \E h \in SignatureHeaders(CanonicalMessage(host, req),
                                  Len(host \o URLString(req.URL))) :
         r = [req EXCEPT !.Header = h]
  /\ Values = << >>
  /\ calls = 0
  /\ authToken = ""
  /\ err = NilError
  /\ message = << >>
  /\ shuffled = FALSE
  /\ log = << >>
  /\ NoCall
  /\ NoProcs
  /\ NoResponse

\* The keys the range loop of a call goes over: those of PostForm as ParseForm
\* leaves it; none when the call returns before the loop.
RangedKeys(req) ==
  IF req.Method = "POST" /\ ~ParseForm(req).err
  THEN DOMAIN ParseForm(req).r.PostForm ELSE {}

\* req.ValidatePost(ctx, authToken)
ValidatePost ==
  /\ calls < MaxCalls
  /\ \E token \in Tokens :
       \E order \in RangeOrders(RangedKeys(r)) :
         \E res \in {ValidatePostCall(host, r, Values, token, order)} :
            /\ r' = res.r
            /\ Values' = res.Values
            /\ err' = res.err
            /\ message' = res.message
            /\ shuffled' = ~InOrder(res.iter)
            /\ log' = res.log
            /\ authToken' = token
  /\ calls' = calls + 1
  /\ UNCHANGED << host, callVars, sharedVars, responseVars, eventVars >>

Next == ValidatePost

Spec == Init /\ [][Next]_vars

(***************************************************************************)
(* The validators and ParseNumber called on their own: a value is drawn,   *)
(* one function is called on it, and what it returned is kept.             *)
(***************************************************************************)
\* The SIP URIs drawn: a scheme, a user part with the "@" that ends it, a
\* host name given by its labels, and what follows the host (nothing, a
\* port, a port that is no number, a path).
URITexts ==
  LET ten == << "8", "0", "0", "5", "6", "4", "2", "3", "6", "5" >>
      us1 == << "u", "s", "1" >>
      twilio == << "t", "w", "i", "l", "i", "o" >>
      com == << "c", "o", "m" >>
      users == { ten \o << "@" >>,
                 PhoneNumber \o << "@" >>,
                 << "0" >> \o Tail(ten) \o << "@" >>,
                 ten \o << ":", "p", "@" >>,
                 << "b", "o", "b", "@" >>,
                 << "@" >>,
                 << >> }
      hosts == { << << "d" >>, SipPrefix, us1, twilio, com >>,
                 << << "a" >>, << "d" >>, SipPrefix, us1, twilio, com >>,
                 << << "D" >>, SipPrefix, us1, twilio, com >>,
                 << SipPrefix, us1, twilio, com >>,
                 << << "d" >>, SipPrefix \o << "2" >>, us1, twilio, com >>,
                 << << "d" >>, SipPrefix, us1, << "x" >>, com >>,
                 << << "d" >>, us1, SipPrefix, twilio, com >>,
                 << << "d" >>, SipPrefix, us1, twilio, com, << "x" >> >>,
                 << << "d" >> >> }
      schemes == { SipColon, SipsColon, << "S", "I", "P", "S", ":" >>,
                   << "t", "e", "l", ":" >>, << "s", "i", "p", "x", ":" >>,
                   << "h", "t", "t", "p", "s", ":", "/", "/" >> }
      tails == { << >>, << ":", "5", "0", "6", "1" >>, << ":", "x" >>, << "/", "p" >> }
  IN { s \o u \o Join(h, Dot) \o t : s \in schemes, u \in users, h \in hosts, t \in tails }

\* How long the key-pad entries drawn are at most.
MaxDigits == 3
\* How long the signature texts compared are.
SigLen == 3

\* Key-pad entries, with characters of the pad and characters that are not.
KeyTexts == UNION {[1..n -> {"1", "#", "*", "a", "b"}] : n \in 0..MaxDigits}

\* Phone numbers and what is nearly one.
NumberTexts ==
  LET ten == << "8", "0", "0", "5", "6", "4", "2", "3", "6", "5" >>
  IN { PhoneNumber, ten, << "1" >> \o ten, << "+" >> \o ten,
       << "0" >> \o Tail(ten), SubSeq(ten, 1, 9) }

\* Texts of signatures, all of one length.
SigTexts == [1..SigLen -> {"A", "B"}]

\* Values of the field CallDuration: whole numbers of seconds, the largest
\* without overflow and the next, the largest int and the next, and what is
\* no whole number.
DurationTexts ==
  { << "1", "2" >>, << "1", "1", " ", "s", "e", "c" >>, << "0" >>, << "0", "0", "7" >>,
    << "+", "1", "2" >>, << "-", "5" >>, << "-" >>, << "1", ".", "5" >>, << " ", "1", "2" >>,
    << "1", "_", "0" >>,
    SubSeq(MaxInt, 1, 10), SubSeq(MaxInt, 1, 9) \o << "7" >>,
    << "-" >> \o SubSeq(MaxInt, 1, 9) \o << "7" >>,
    MaxInt, SubSeq(MaxInt, 1, 18) \o << "8" >>,
    << "-" >> \o SubSeq(MaxInt, 1, 18) \o << "8" >> }

ArgTexts == URITexts \cup KeyTexts \cup NumberTexts \cup SigTexts \cup DurationTexts

\* The bytes the run time's comparison of equal-length strings looks at: it
\* goes chunk by chunk and stops after the first chunk that differs.  The
\* chunk size is the build's choice.
FirstDifference(a, b) ==
  IF a = b THEN Len(a)
  ELSE CHOOSE i \in 1..Len(a) : a[i] # b[i] /\ \A j \in 1..(i - 1) : a[j] = b[j]

ChunkEnd(i, chunk, len) ==
  IF ((i + chunk - 1) \div chunk) * chunk < len THEN ((i + chunk - 1) \div chunk) * chunk
  ELSE len

\* sig != xTwilioSigHdr[0]: the verdict and the bytes looked at.
StringsDiffer(a, b, chunk) ==
  IF Len(a) # Len(b) THEN [differ |-> TRUE, work |-> 0]
  ELSE [differ |-> a # b, work |-> ChunkEnd(FirstDifference(a, b), chunk, Len(a))]

ChunkSizes == {1, SigLen}

InitCall ==
  /\ NoRequest
  /\ arg \in ArgTexts
  /\ param \in {"", allowempty}
  /\ fn = "none"
  /\ ret = NoError
  /\ NoProcs
  /\ NoResponse

\* ParseNumber(arg)
CallParseNumber ==
  /\ fn = "none"
  /\ fn' = "ParseNumber"
  /\ ret' = ParseNumberTraced(arg)
  /\ UNCHANGED << arg, param, requestVars, sharedVars, responseVars, eventVars >>

\* validSIPURI(arg, param)
CallValidSIPURI ==
  /\ fn = "none"
  /\ fn' = "validSIPURI"
  /\ ret' = validSIPURI(arg, param)
  /\ UNCHANGED << arg, param, requestVars, sharedVars, responseVars, eventVars >>

\* parseSIPURI(arg)
CallParseSIPURI ==
  /\ fn = "none"
  /\ fn' = "parseSIPURI"
  /\ ret' = parseSIPURI(arg)
  /\ UNCHANGED << arg, param, requestVars, sharedVars, responseVars, eventVars >>

\* validFromOrTo(arg, param)
CallValidFromOrTo ==
  /\ fn = "none"
  /\ fn' = "validFromOrTo"
  /\ ret' = validFromOrToTraced(arg, param)
  /\ UNCHANGED << arg, param, requestVars, sharedVars, responseVars, eventVars >>

\* RequestValues{"CallDuration": arg}.CallDuration(), and the same on
\* RequestValues without the field.
CallCallDuration ==
  /\ fn = "none"
  /\ fn' = "CallDuration"
  /\ \E values \in {[k \in {CallDurationName} |-> arg], << >>} :
       ret' = [r |-> values, call |-> CallDuration(values)]
  /\ UNCHANGED << arg, param, requestVars, sharedVars, responseVars, eventVars >>

\* validateKeyPadEntry(arg, param)
CallValidateKeyPadEntry ==
  /\ fn = "none"
  /\ fn' = "validateKeyPadEntry"
  /\ ret' = validateKeyPadEntry(arg, param)
  /\ UNCHANGED << arg, param, requestVars, sharedVars, responseVars, eventVars >>

\* The comparison of ValidatePost, made for the computed signature arg with
\* two header values, under one build.
CompareSignature ==
  /\ fn = "none"
  /\ arg \in SigTexts
  /\ fn' = "compare"
  /\ \E chunk \in ChunkSizes : \E h1 \in SigTexts : \E h2 \in SigTexts :
       ret' = [first |-> h1, second |-> h2,
               with1 |-> StringsDiffer(arg, h1, chunk),
               with2 |-> StringsDiffer(arg, h2, chunk)]
  /\ UNCHANGED << arg, param, requestVars, sharedVars, responseVars, eventVars >>

NextCall ==
  \/ CallParseNumber
  \/ CallValidSIPURI
  \/ CallParseSIPURI
  \/ CallValidFromOrTo
  \/ CallCallDuration
  \/ CallValidateKeyPadEntry
  \/ CompareSignature

SpecCall == InitCall /\ [][NextCall]_vars

(***************************************************************************)
(* Calls of ValidatePost running concurrently, each on a Request of its    *)
(* own made from an http.Request of its own.  A call is taken apart into   *)
(* the steps between which another call can run; the only thing the calls  *)
(* have in common is the package-level registry, which a step reads.       *)
(***************************************************************************)
\* How many calls run concurrently.
MaxProcs == 2

\* The requests the concurrent calls are made on, for the host "h" and the
\* token "K1": one that fails at its second field, one that is accepted,
\* one that does not decode, one that is no POST, one signed under another key.
ConcurrentRequests ==
  LET url == [Path |-> << "/" >>, RawQuery |-> << >>]
      signed(req, k) ==
        [req EXCEPT !.Header = << HmacSha1Base64(k, CanonicalMessage(<< "h" >>, req)) >>]
  IN { signed(Received("POST", url, << Pair(AName, << "B", "x" >>), Pair(FromName, << "x" >>) >>), "K1"),
       signed(Received("POST", url, << Pair(ToName, SipURI), Pair(ABName, << "x" >>) >>), "K1"),
       signed(Received("POST", url, << Malformed >>), "K1"),
       signed(Received("GET", url, << >>), "K1"),
       signed(Received("POST", url, << Pair(FromName, PhoneNumber) >>), "K2") }

\* A call that has not started: NewRequest("h", req), then ValidatePost(ctx, "K1").
NewProc(req) ==
  [host |-> << "h" >>, req |-> req, r |-> req, Values |-> << >>, token |-> "K1",
   pc |-> "method", params |-> << >>, left |-> << >>, err |-> NilError]

\* A call that returns error.
ProcReturn(pr, error) == [pr EXCEPT !.pc = "done", !.err = error]

\* StoreValue as it would be with Values a map the Requests share.
StoreValueShared(ps, p, name, val) ==
  [q \in DOMAIN ps |-> [ps[q] EXCEPT !.Values = MapSet(@, name, val)]]

\* req.Values[p] = val, in the Request of call p.
StoreValue(ps, p, name, val) ==
  [ps EXCEPT ![p].Values = MapSet(@, name, val)]

\* One pass of the loop under "Validate data" in call p, for the field name
\* with value val, whose validator has returned verr.
ProcAfterValidator(ps, p, name, val, verr) ==
  IF verr # NoError THEN [ps EXCEPT ![p] = ProcReturn(@, FieldError(name, val, verr))]
  ELSE [StoreValue(ps, p, name, val) EXCEPT ![p].left = Tail(@)]

InitProcs ==
  /\ NoRequest
  /\ NoCall
  /\ NoResponse
  /\ registry = fieldValidators
  /\ \E reqs \in [1..MaxProcs -> ConcurrentRequests] :
       procs = [p \in 1..MaxProcs |-> NewProc(reqs[p])]

\* if req.r.Method != "POST"
ProcMethod ==
  /\ \E p \in DOMAIN procs :
       /\ procs[p].pc = "method"
       /\ procs' = [procs EXCEPT ![p] =
                      IF procs[p].r.Method # "POST"
                      THEN ProcReturn(procs[p], MethodError(procs[p].r.Method))
                      ELSE [procs[p] EXCEPT !.pc = "decode"]]
  /\ UNCHANGED << registry, requestVars, callVars, responseVars, eventVars >>

\* req.r.ParseForm()
ProcDecode ==
  /\ \E p \in DOMAIN procs :
       /\ procs[p].pc = "decode"
       /\ \E parsed \in {ParseForm(procs[p].r)} :
            procs' = [procs EXCEPT ![p] =
                        IF parsed.err
                        THEN ProcReturn([procs[p] EXCEPT !.r = parsed.r], DecodeError)
                        ELSE [procs[p] EXCEPT !.r = parsed.r, !.pc = "collect"]]
  /\ UNCHANGED << registry, requestVars, callVars, responseVars, eventVars >>

\* The range loop over PostForm, handing out the names in some order, and
\* sort.Strings.
ProcCollect ==
  /\ \E p \in DOMAIN procs :
       /\ procs[p].pc = "collect"
       /\ \E order \in RangeOrders(DOMAIN procs[p].r.PostForm) :
            procs' = [procs EXCEPT ![p].params = SortedParams(order),
                                   ![p].pc = "signature"]
  /\ UNCHANGED << registry, requestVars, callVars, responseVars, eventVars >>

\* The message, its signature, and the comparison with the header.
ProcSignature ==
  /\ \E p \in DOMAIN procs :
       /\ procs[p].pc = "signature"
       /\ \E sig \in {HmacSha1Base64(procs[p].token,
                        BuildMessage(procs[p].host \o URLString(procs[p].r.URL),
                                     procs[p].params, procs[p].r.PostForm))} :
            procs' = [procs EXCEPT ![p] =
                        IF ~SignatureMatches(sig, procs[p].r.Header)
                        THEN ProcReturn(procs[p], SignatureError(sig,
                               IF Len(procs[p].r.Header) = 1 THEN procs[p].r.Header[1]
                               ELSE EmptySigString))
                        ELSE [procs[p] EXCEPT !.left = procs[p].params, !.pc = "validate"]]
  /\ UNCHANGED << registry, requestVars, callVars, responseVars, eventVars >>

\* One pass of the loop under "Validate data": the validator of the field is
\* looked up in the package-level registry and called.
ProcValidate ==
  /\ \E p \in DOMAIN procs :
       /\ procs[p].pc = "validate"
       /\ procs[p].left # << >>
       /\ \E name \in {Head(procs[p].left)} :
            \E val \in {FirstValue(procs[p].r.PostForm, name)} :
              procs' = ProcAfterValidator(procs, p, name, val,
                         IF name \in DOMAIN registry
                         THEN CallValidator(registry[name], val) ELSE NoError)
  /\ UNCHANGED << registry, requestVars, callVars, responseVars, eventVars >>

\* return nil
ProcFinish ==
  /\ \E p \in DOMAIN procs :
       /\ procs[p].pc = "validate"
       /\ procs[p].left = << >>
       /\ procs' = [procs EXCEPT ![p].pc = "done"]
  /\ UNCHANGED << registry, requestVars, callVars, responseVars, eventVars >>

NextProcs ==
  \/ ProcMethod
  \/ ProcDecode
  \/ ProcCollect
  \/ ProcSignature
  \/ ProcValidate
  \/ ProcFinish

SpecProcs == InitProcs /\ [][NextProcs]_vars

(***************************************************************************)
(* A Response built by calls of the builder methods and rendered.          *)
(***************************************************************************)
\* How many builder calls are made.
MaxVerbs == 3
\* How many Dials and Gathers are made.
MaxContainers == 1
\* How many times the Response is rendered between two builder calls.
MaxRenders == 2

\* The Dials or Gathers of the heap.
Made(type) == {a \in DOMAIN heap : heap[a].type = type}

\* NewResponse()
InitBuild ==
  /\ NoRequest
  /\ NoCall
  /\ NoProcs
  /\ heap = [a \in {1} |-> [type |-> "Response", Verbs |-> << >>]]
  /\ verbCalls = << >>
  /\ rendered = << >>
  /\ events = << >>
  /\ eventCalls = << >>

\* NewDial()
NewDial ==
  /\ Cardinality(DOMAIN heap) <= MaxContainers
  /\ heap' = MapSet(heap, Cardinality(DOMAIN heap) + 1, [type |-> "Dial", Verbs |-> << >>])
  /\ UNCHANGED << verbCalls, rendered, eventVars, requestVars, callVars, sharedVars >>

\* NewGather()
NewGather ==
  /\ Cardinality(DOMAIN heap) <= MaxContainers
  /\ heap' = MapSet(heap, Cardinality(DOMAIN heap) + 1, [type |-> "Gather", Verbs |-> << >>])
  /\ UNCHANGED << verbCalls, rendered, eventVars, requestVars, callVars, sharedVars >>

\* r.Gather(gather)
ResponseGather ==
  /\ Len(verbCalls) < MaxVerbs
  /\ \E gather \in Made("Gather") :
       /\ heap' = [heap EXCEPT ![1].Verbs = AppendVerb(@, Verb("Gather", gather, << >>, ""))]
       /\ verbCalls' = Append(verbCalls, [recv |-> 1, verb |-> Verb("Gather", gather, << >>, "")])
  /\ rendered' = << >>
  /\ UNCHANGED << eventVars, requestVars, callVars, sharedVars >>

\* r.Dial(dial)
ResponseDial ==
  /\ Len(verbCalls) < MaxVerbs
  /\ \E dial \in Made("Dial") :
       /\ heap' = [heap EXCEPT ![1].Verbs = AppendVerb(@, Verb("Dial", dial, << >>, ""))]
       /\ verbCalls' = Append(verbCalls, [recv |-> 1, verb |-> Verb("Dial", dial, << >>, "")])
  /\ rendered' = << >>
  /\ UNCHANGED << eventVars, requestVars, callVars, sharedVars >>

\* r.Say(NewSay("Failed to connect"))
ResponseSay ==
  /\ Len(verbCalls) < MaxVerbs
  /\ \E say \in {Verb("Say", 0, << [name |-> "voice", uint |-> FALSE, value |-> ""],
                                   [name |-> "loop", uint |-> TRUE, value |-> "0"] >>,
                      "Failed to connect")} :
       /\ heap' = [heap EXCEPT ![1].Verbs = AppendVerb(@, say)]
       /\ verbCalls' = Append(verbCalls, [recv |-> 1, verb |-> say])
  /\ rendered' = << >>
  /\ UNCHANGED << eventVars, requestVars, callVars, sharedVars >>

\* r.Play(NewPlay("a.mp3"))
ResponsePlay ==
  /\ Len(verbCalls) < MaxVerbs
  /\ \E play \in {Verb("Play", 0, << [name |-> "digits", uint |-> FALSE, value |-> ""],
                                     [name |-> "loop", uint |-> TRUE, value |-> "0"] >>,
                       "a.mp3")} :
       /\ heap' = [heap EXCEPT ![1].Verbs = AppendVerb(@, play)]
       /\ verbCalls' = Append(verbCalls, [recv |-> 1, verb |-> play])
  /\ rendered' = << >>
  /\ UNCHANGED << eventVars, requestVars, callVars, sharedVars >>

\* r.Start(NewStart())
ResponseStart ==
  /\ Len(verbCalls) < MaxVerbs
  /\ \E start \in {Verb("Start", 0, << >>, "")} :
       /\ heap' = [heap EXCEPT ![1].Verbs = AppendVerb(@, start)]
       /\ verbCalls' = Append(verbCalls, [recv |-> 1, verb |-> start])
  /\ rendered' = << >>
  /\ UNCHANGED << eventVars, requestVars, callVars, sharedVars >>

\* r.Pause(length): the verb is NewPause(length)
ResponsePause ==
  /\ Len(verbCalls) < MaxVerbs
  /\ \E length \in {1} :
       \E pause \in {Verb("Pause", 0, << [name |-> "length", uint |-> TRUE,
                                          value |-> ToString(length)] >>, "")} :
         /\ heap' = [heap EXCEPT ![1].Verbs = AppendVerb(@, pause)]
         /\ verbCalls' = Append(verbCalls, [recv |-> 1, verb |-> pause])
  /\ rendered' = << >>
  /\ UNCHANGED << eventVars, requestVars, callVars, sharedVars >>

\* r.Redirect(NewRedirect("/next").SetMethod(Post))
ResponseRedirect ==
  /\ Len(verbCalls) < MaxVerbs
  /\ \E redirect \in {Verb("Redirect", 0, << [name |-> "method", uint |-> FALSE,
                                              value |-> "POST"] >>, "/next")} :
       /\ heap' = [heap EXCEPT ![1].Verbs = AppendVerb(@, redirect)]
       /\ verbCalls' = Append(verbCalls, [recv |-> 1, verb |-> redirect])
  /\ rendered' = << >>
  /\ UNCHANGED << eventVars, requestVars, callVars, sharedVars >>

\* r.Hangup(): the verb is &Hangup{}
ResponseHangup ==
  /\ Len(verbCalls) < MaxVerbs
  /\ \E hangup \in {Verb("Hangup", 0, << >>, "")} :
       /\ heap' = [heap EXCEPT ![1].Verbs = AppendVerb(@, hangup)]
       /\ verbCalls' = Append(verbCalls, [recv |-> 1, verb |-> hangup])
  /\ rendered' = << >>
  /\ UNCHANGED << eventVars, requestVars, callVars, sharedVars >>

\* d.Number(NewNumber("810-730-3842"))
DialNumber ==
  /\ Len(verbCalls) < MaxVerbs
  /\ \E d \in Made("Dial") :
       \E number \in {Verb("Number", 0, << >>, "810-730-3842")} :
         /\ heap' = [heap EXCEPT ![d].Verbs = AppendVerb(@, number)]
         /\ verbCalls' = Append(verbCalls, [recv |-> d, verb |-> number])
  /\ rendered' = << >>
  /\ UNCHANGED << eventVars, requestVars, callVars, sharedVars >>

\* d.Conference(NewConference("room").SetStatusCallbackEvent(ConferenceCallbackEvents().Start().End()))
DialConference ==
  /\ Len(verbCalls) < MaxVerbs
  /\ \E d \in Made("Dial") :
       \E conference \in {Verb("Conference", 0,
                               << [name |-> "statusCallbackEvent", uint |-> FALSE,
                                   value |-> "start end"] >>, "room")} :
         /\ heap' = [heap EXCEPT ![d].Verbs = AppendVerb(@, conference)]
         /\ verbCalls' = Append(verbCalls, [recv |-> d, verb |-> conference])
  /\ rendered' = << >>
  /\ UNCHANGED << eventVars, requestVars, callVars, sharedVars >>

\* g.Say(AliceVoice.Say("Welcome"))
GatherSay ==
  /\ Len(verbCalls) < MaxVerbs
  /\ \E g \in Made("Gather") :
       \E say \in {Verb("Say", 0, << [name |-> "voice", uint |-> FALSE, value |-> "alice"],
                                     [name |-> "loop", uint |-> TRUE, value |-> "0"] >>,
                        "Welcome")} :
         /\ heap' = [heap EXCEPT ![g].Verbs = AppendVerb(@, say)]
         /\ verbCalls' = Append(verbCalls, [recv |-> g, verb |-> say])
  /\ rendered' = << >>
  /\ UNCHANGED << eventVars, requestVars, callVars, sharedVars >>

\* g.Pause(1): the verb is NewPause(1)
GatherPause ==
  /\ Len(verbCalls) < MaxVerbs
  /\ \E g \in Made("Gather") :
       \E pause \in {Verb("Pause", 0, << [name |-> "length", uint |-> TRUE,
                                          value |-> ToString(1)] >>, "")} :
         /\ heap' = [heap EXCEPT ![g].Verbs = AppendVerb(@, pause)]
         /\ verbCalls' = Append(verbCalls, [recv |-> g, verb |-> pause])
  /\ rendered' = << >>
  /\ UNCHANGED << eventVars, requestVars, callVars, sharedVars >>

\* r.Render(ctx)
ResponseRender ==
  /\ Len(rendered) < MaxRenders
  /\ rendered' = Append(rendered, Render(heap))
  /\ UNCHANGED << heap, verbCalls, eventVars, requestVars, callVars, sharedVars >>

NextBuild ==
  \/ NewDial
  \/ NewGather
  \/ ResponseGather
  \/ ResponseDial
  \/ ResponseSay
  \/ ResponsePlay
  \/ ResponseStart
  \/ ResponsePause
  \/ ResponseRedirect
  \/ ResponseHangup
  \/ DialNumber
  \/ DialConference
  \/ GatherSay
  \/ GatherPause
  \/ ResponseRender

SpecBuild == InitBuild /\ [][NextBuild]_vars

(***************************************************************************)
(* A conferenceCallbackEvents value made by a chain of event methods.      *)
(***************************************************************************)
\* How many event methods are called.
MaxEvents == 3

\* ConferenceCallbackEvents()
InitEvents ==
  /\ NoRequest
  /\ NoCall
  /\ NoProcs
  /\ heap = << >>
  /\ verbCalls = << >>
  /\ rendered = << >>
  /\ events = EmptyString
  /\ eventCalls = << >>

\* c.Start()
EventStart ==
  /\ Len(eventCalls) < MaxEvents
  /\ events' = AddEvent(events, << "s", "t", "a", "r", "t" >>)
  /\ eventCalls' = Append(eventCalls, << "S", "t", "a", "r", "t" >>)
  /\ UNCHANGED << responseVars, requestVars, callVars, sharedVars >>

\* c.End()
EventEnd ==
  /\ Len(eventCalls) < MaxEvents
  /\ events' = AddEvent(events, << "e", "n", "d" >>)
  /\ eventCalls' = Append(eventCalls, << "E", "n", "d" >>)
  /\ UNCHANGED << responseVars, requestVars, callVars, sharedVars >>

\* c.Join()
EventJoin ==
  /\ Len(eventCalls) < MaxEvents
  /\ events' = AddEvent(events, << "j", "o", "i", "n" >>)
  /\ eventCalls' = Append(eventCalls, << "J", "o", "i", "n" >>)
  /\ UNCHANGED << responseVars, requestVars, callVars, sharedVars >>

\* c.Leave()
EventLeave ==
  /\ Len(eventCalls) < MaxEvents
  /\ events' = AddEvent(events, << "l", "e", "a", "v", "e" >>)
  /\ eventCalls' = Append(eventCalls, << "L", "e", "a", "v", "e" >>)
  /\ UNCHANGED << responseVars, requestVars, callVars, sharedVars >>

\* c.Mute()
EventMute ==
  /\ Len(eventCalls) < MaxEvents
  /\ events' = AddEvent(events, << "m", "u", "t", "e" >>)
  /\ eventCalls' = Append(eventCalls, << "M", "u", "t", "e" >>)
  /\ UNCHANGED << responseVars, requestVars, callVars, sharedVars >>

\* c.Hold()
EventHold ==
  /\ Len(eventCalls) < MaxEvents
  /\ events' = AddEvent(events, << "h", "o", "l", "d" >>)
  /\ eventCalls' = Append(eventCalls, << "H", "o", "l", "d" >>)
  /\ UNCHANGED << responseVars, requestVars, callVars, sharedVars >>

\* c.Speaker()
EventSpeaker ==
  /\ Len(eventCalls) < MaxEvents
  /\ events' = AddEvent(events, << "s", "p", "e", "a", "k", "e", "r" >>)
  /\ eventCalls' = Append(eventCalls, << "S", "p", "e", "a", "k", "e", "r" >>)
  /\ UNCHANGED << responseVars, requestVars, callVars, sharedVars >>

NextEvents ==
  \/ EventStart
  \/ EventEnd
  \/ EventJoin
  \/ EventLeave
  \/ EventMute
  \/ EventHold
  \/ EventSpeaker

SpecEvents == InitEvents /\ [][NextEvents]_vars

(***************************************************************************)
(* What the claims are stated with.                                        *)
(***************************************************************************)
\* The last call got as far as computing the signature.
Signed == calls >= 1 /\ message # << >>

\* The URL the last call signed.
SignedURL == host \o URLString(r.URL)

\* The signature the documented scheme gives the request under the token of
\* the last call.
ExpectedSignature == HmacSha1Base64(authToken, CanonicalMessage(host, r))

\* The steps of the last call, as a set.
StepsDone == {log[i] : i \in 1..Len(log)}

\* The fields of the request whose registered validator rejects their first value.
FailingFields ==
  {p \in (DOMAIN r.PostForm) \cap (DOMAIN fieldValidators) :
     CallValidator(fieldValidators[p], FirstValue(r.PostForm, p)) # NoError}

\* Two strings of the same length that differ in exactly one position.
DiffersInOneChar(s, t) ==
  Len(s) = Len(t) /\ Cardinality({i \in 1..Len(s) : s[i] # t[i]}) = 1

\* The sum of the lengths of the names and first values of a form.
RECURSIVE FieldsLength(_, _)
FieldsLength(names, form) ==
  IF names = {} THEN 0
  ELSE LET p == CHOOSE q \in names : TRUE
       IN Len(p) + (IF form[p] = << >> THEN 0 ELSE Len(form[p][1]))
            + FieldsLength(names \ {p}, form)

(***************************************************************************)
(* C1.  The message ValidatePost signs is exactly host + URL followed, for *)
(* every form field name in ascending byte-wise order, by the name and the *)
(* field's first value ("" for a field without values), and nothing else:  *)
(* no separator is inserted, so its length is the sum of the parts.        *)
(***************************************************************************)
C1_CanonicalMessage ==
  Signed =>
    /\ message = CanonicalMessage(host, r)
    /\ Len(message) = Len(SignedURL) + FieldsLength(DOMAIN r.PostForm, r.PostForm)

\* A call has signed a request of two fields, one of them without any value.
C1_Witness ==
  /\ Signed
  /\ Cardinality(DOMAIN r.PostForm) = 2
  /\ \E p \in DOMAIN r.PostForm : r.PostForm[p] = << >>

(***************************************************************************)
(* C2.  Whatever order the form map hands out its field names in, the call *)
(* builds the same message and returns the same error: the message and the *)
(* error of the last call are those of every other order as well.          *)
(***************************************************************************)
C2_OrderIndependent ==
  Signed =>
    \A o \in RangeOrders(DOMAIN r.PostForm) :
      /\ BuildMessage(SignedURL, SortedParams(o), r.PostForm) = message
      /\ WithParams(SignedURL, r, << >>, authToken, o, SortedParams(o)).err = err

\* A call was handed the field names out of order and accepted the request.
C2_Witness == Signed /\ shuffled /\ err.kind = "nil"

(***************************************************************************)
(* C3.  A call passes the signature step only if the X-Twilio-Signature    *)
(* header has exactly one value and that value is the signature of the     *)
(* canonical message under the auth token; with no value, with two values  *)
(* or with a different value the call returns the signature error.         *)
(***************************************************************************)
C3_SignatureStep ==
  Signed =>
    /\ err.kind \in {"nil", "field", "signature"}
    /\ err.kind # "signature" <=>
         (Len(r.Header) = 1 /\ r.Header[1] = ExpectedSignature)

\* A call has rejected a header of two values of which one is the right signature.
C3_Witness ==
  /\ Signed
  /\ Len(r.Header) = 2
  /\ r.Header[1] = ExpectedSignature
  /\ err.kind = "signature"

(***************************************************************************)
(* C4.  With a header that is the documented signature of a message M      *)
(* under the token of the call, the call accepts the request whose         *)
(* canonical message is M and rejects the request whose canonical message  *)
(* differs from M, in particular in a single character.                    *)
(***************************************************************************)
C4_TamperRejected ==
  (Signed /\ Len(r.Header) = 1 /\ r.Header[1].key = authToken) =>
    /\ r.Header[1].msg = CanonicalMessage(host, r) => err.kind # "signature"
    /\ r.Header[1].msg # CanonicalMessage(host, r) => err.kind = "signature"
    /\ DiffersInOneChar(r.Header[1].msg, CanonicalMessage(host, r))
         => err.kind = "signature" /\ Values = << >>

\* A call has rejected a request that differs in one character of a field
\* value from what was signed under its token.
C4_Witness ==
  /\ Signed
  /\ Len(r.Header) = 1
  /\ r.Header[1].key = authToken
  /\ DOMAIN r.PostForm # {}
  /\ DiffersInOneChar(r.Header[1].msg, CanonicalMessage(host, r))
  /\ r.Header[1].msg[Len(message)] # message[Len(message)]
  /\ err.kind = "signature"

(***************************************************************************)
(* C5.  The steps of a call run in the order method check, form decode,    *)
(* signature check, field validation, and the first failing step ends the  *)
(* call: a request that is not a POST is rejected with its form untouched, *)
(* a decode failure is returned with no message signed, and a validator    *)
(* runs only after the signature has matched.                              *)
(***************************************************************************)
C5_StepOrder ==
  calls >= 1 =>
    /\ \A i \in 1..Len(log) :
         /\ i = 1 <=> log[i] = MethodStep
         /\ i = 2 <=> log[i] = DecodeStep
         /\ i = 3 <=> log[i] = SignatureStep
         /\ i > 3 <=> log[i].step \in {"validate", "copy"}
    /\ r.Method # "POST" <=> err.kind = "method"
    /\ err.kind = "method" => (Len(log) = 1 /\ ~r.FormSet /\ message = << >>)
    /\ err.kind = "decode" => (Len(log) = 2 /\ message = << >>)
    /\ err.kind = "signature" => Len(log) = 3
    /\ Len(log) > 3 => r.Header = << ExpectedSignature >>
    /\ err.kind = "field" => log[Len(log)] = Step("validate", err.field)

\* A call has returned the decode failure of a request whose header carries
\* the right signature of the fields that did decode.
C5_Witness ==
  /\ calls >= 1
  /\ err.kind = "decode"
  /\ DOMAIN r.PostForm # {}
  /\ r.Header = << ExpectedSignature >>

(***************************************************************************)
(* C6.  A call that fails at the method check, the form decode or the      *)
(* signature check leaves Request.Values exactly as it was before the call.*)
(***************************************************************************)
C6_ValuesKeptOnEarlyFailure ==
  [][err'.kind \in {"method", "decode", "signature"} => Values' = Values]_vars

\* After a call that filled Values, a call has failed the signature check
\* and the values are still there.
C6_Witness ==
  /\ calls >= 2
  /\ err.kind = "signature"
  /\ Values # << >>

(***************************************************************************)
(* C7.  Whenever the first call on a fresh Request returns an error,       *)
(* Request.Values holds no field of the request.                           *)
(***************************************************************************)
C7_NoPartialValues ==
  (calls = 1 /\ err.kind # "nil") => Values = << >>

(***************************************************************************)
(* C8.  When the first call on a fresh Request returns nil, the keys of    *)
(* Request.Values are the names of the form fields, each with the first    *)
(* raw value of its field ("" for a field without values); a validator ran *)
(* for From, To and Digits only, and every field was copied.               *)
(***************************************************************************)
C8_ValuesOnSuccess ==
  (calls = 1 /\ err.kind = "nil") =>
    /\ DOMAIN Values = DOMAIN r.PostForm
    /\ \A p \in DOMAIN r.PostForm :
         /\ Values[p] = (IF r.PostForm[p] = << >> THEN << >> ELSE r.PostForm[p][1])
         /\ Step("copy", p) \in StepsDone
         /\ Step("validate", p) \in StepsDone <=> p \in {FromName, ToName, DigitsName}

\* A first call has accepted a request with a field without a validator and
\* without values, and a field with a validator.
C8_Witness ==
  /\ calls = 1
  /\ err.kind = "nil"
  /\ \E p \in DOMAIN r.PostForm : r.PostForm[p] = << >> /\ p \notin DOMAIN fieldValidators
  /\ \E p \in DOMAIN r.PostForm : p \in DOMAIN fieldValidators

(***************************************************************************)
(* C9.  Once the signature has matched, the fields are gone through in     *)
(* ascending name order, each field with a registered validator is checked *)
(* with its first value, and the call stops at the first field whose       *)
(* validator fails: the error names that field and its value and wraps the *)
(* validator's error, and no later field is validated or copied.           *)
(***************************************************************************)
C9_FirstFailureStops ==
  (calls >= 1 /\ err.kind \in {"nil", "field"}) =>
    /\ FailingFields = {} <=> err.kind = "nil"
    /\ \A i \in 4..Len(log) : \A j \in (i + 1)..Len(log) :
         log[i].field = log[j].field \/ StrLess(log[i].field, log[j].field)
    /\ FailingFields # {} =>
         /\ err.field = MinString(FailingFields)
         /\ err.value = FirstValue(r.PostForm, err.field)
         /\ err.cause = CallValidator(fieldValidators[err.field], err.value)
         /\ err.cause # NoError
         /\ \A p \in DOMAIN r.PostForm :
              /\ Step("copy", p) \in StepsDone <=> StrLess(p, err.field)
              /\ StrLess(err.field, p) => Step("validate", p) \notin StepsDone
         /\ calls = 1 => DOMAIN Values = {p \in DOMAIN r.PostForm : StrLess(p, err.field)}

\* A call has stopped at the first of two fields whose validators fail.
C9_Witness ==
  /\ calls >= 1
  /\ err.kind = "field"
  /\ Cardinality(FailingFields) = 2

(***************************************************************************)
(* C10.  A second call of ValidatePost on the same Request with the same   *)
(* auth token returns what the call before it returned and leaves          *)
(* Request.Values and the request as that call left them.                  *)
(***************************************************************************)
C10_Idempotent ==
  [][(calls >= 1 /\ authToken' = authToken) =>
       (err' = err /\ Values' = Values /\ r' = r)]_vars

(***************************************************************************)
(* What the claims about ParseNumber are stated with: the verdicts on arg  *)
(* of the phone-number capability and of the SIP micro-grammar.            *)
(***************************************************************************)
\* The phone-number capability accepts arg as a valid number.
ArgIsPhone == LibParse(arg).ok /\ LibIsValidNumber(LibParse(arg))

\* The labels of the host name of arg read as a SIP URI.
ArgLabels == Split(Hostname(parseSIPURI(arg).u), ".")

\* arg is a SIP URI of the provider's routing domain: at least five labels,
\* the last two twilio.com, the fourth from last sip.
ArgIsRouting ==
  /\ parseSIPURI(arg).err = NoError
  /\ Len(ArgLabels) >= 5
  /\ ArgLabels[Len(ArgLabels)] = << "c", "o", "m" >>
  /\ ArgLabels[Len(ArgLabels) - 1] = << "t", "w", "i", "l", "i", "o" >>
  /\ ArgLabels[Len(ArgLabels) - 3] = << "s", "i", "p" >>

\* The user part of arg read as a SIP URI is a valid phone number.
ArgUserIsPhone ==
  /\ LibParse(parseSIPURI(arg).u.Username).ok
  /\ LibIsValidNumber(LibParse(parseSIPURI(arg).u.Username))

(***************************************************************************)
(* C11.  For an input the phone-number capability accepts, ParseNumber      *)
(* returns Valid with SIP unset, SIPDomain and Region empty and Number the *)
(* input as given, and it has tried nothing but the phone-number check.    *)
(***************************************************************************)
C11_PhoneFirst ==
  (fn = "ParseNumber" /\ ArgIsPhone) =>
    /\ ret.number = [Valid |-> TRUE, Number |-> arg, SIP |-> FALSE,
                     SIPDomain |-> << >>, Region |-> << >>, Raw |-> arg]
    /\ ret.tried = << "phone" >>

\* ParseNumber has returned a valid ten-digit number that is not in E.164.
C11_Witness ==
  /\ fn = "ParseNumber"
  /\ arg = << "8", "0", "0", "5", "6", "4", "2", "3", "6", "5" >>
  /\ ret.number.Valid
  /\ ret.number.Number = arg

(***************************************************************************)
(* C12.  For an input that is no valid phone number but a SIP URI of the   *)
(* routing domain whose user part is a valid phone number, ParseNumber     *)
(* returns Valid and SIP, Number the E.164 form of the user part,          *)
(* SIPDomain the labels before the sip label joined by ".", and Region the *)
(* label "sip" itself.                                                     *)
(***************************************************************************)
C12_RoutingURI ==
  (fn = "ParseNumber" /\ ~ArgIsPhone /\ ArgIsRouting /\ ArgUserIsPhone) =>
    ret.number =
      [Valid |-> TRUE,
       Number |-> << "+", "1" >> \o LibParse(parseSIPURI(arg).u.Username).national,
       SIP |-> TRUE,
       SIPDomain |-> Join(SubSeq(ArgLabels, 1, Len(ArgLabels) - 4), << "." >>),
       Region |-> << "s", "i", "p" >>,
       Raw |-> arg]

\* ParseNumber has returned for a URI with two labels before the sip label.
C12_Witness ==
  /\ fn = "ParseNumber"
  /\ ret.number.SIP
  /\ ret.number.SIPDomain = << "a", ".", "d" >>
  /\ ret.number.Number = PhoneNumber

(***************************************************************************)
(* C13.  For a SIP URI that parses but whose host has fewer than five      *)
(* labels, or does not end in twilio.com, or has another label than sip    *)
(* fourth from last, or whose user part is no valid phone number,          *)
(* ParseNumber returns Valid and SIP unset and Number the raw input.       *)
(***************************************************************************)
C13_NonRouting ==
  (fn = "ParseNumber" /\ parseSIPURI(arg).err = NoError
     /\ ~(ArgIsRouting /\ ArgUserIsPhone)) =>
    ret.number = [Valid |-> FALSE, Number |-> arg, SIP |-> FALSE,
                  SIPDomain |-> << >>, Region |-> << >>, Raw |-> arg]

\* ParseNumber has returned for a URI of four labels sip.us1.twilio.com
\* whose user part is a valid phone number.
C13_Witness ==
  /\ fn = "ParseNumber"
  /\ parseSIPURI(arg).err = NoError
  /\ ArgLabels = << << "s", "i", "p" >>, << "u", "s", "1" >>,
                   << "t", "w", "i", "l", "i", "o" >>, << "c", "o", "m" >> >>
  /\ ArgUserIsPhone
  /\ ~ret.number.Valid

(***************************************************************************)
(* C14.  ParseNumber returns a ParsedNumber for every input, the empty     *)
(* string included; Raw is the input character for character; and when the *)
(* input is neither a valid phone number nor a routing URI with a valid    *)
(* user part, Valid is unset and Number is the input.                      *)
(***************************************************************************)
C14_AlwaysAResult ==
  /\ fn = "none" =>
       DOMAIN ParseNumber(arg) = {"Valid", "Number", "SIP", "SIPDomain", "Region", "Raw"}
  /\ fn = "ParseNumber" =>
       /\ DOMAIN ret.number = {"Valid", "Number", "SIP", "SIPDomain", "Region", "Raw"}
       /\ ret.number.Raw = arg
       /\ (~ArgIsPhone /\ ~(ArgIsRouting /\ ArgUserIsPhone)) =>
            (~ret.number.Valid /\ ret.number.Number = arg)

\* ParseNumber has returned for an input with upper-case letters that is
\* neither a phone number nor a SIP URI.
C14_Witness ==
  /\ fn = "ParseNumber"
  /\ HasPrefix(arg, << "S", "I", "P", "S", ":" >>)
  /\ parseSIPURI(arg).err # NoError
  /\ ~ret.number.Valid
  /\ ret.number.Raw = arg

(***************************************************************************)
(* C15.  In every value ParseNumber returns, SIP implies Valid, SIPDomain  *)
(* and Region are empty unless SIP is set, and Number is Raw unless Valid  *)
(* is set.                                                                 *)
(***************************************************************************)
C15_ResultInvariant ==
  fn = "ParseNumber" =>
    /\ ret.number.SIP => ret.number.Valid
    /\ ~ret.number.SIP => (ret.number.SIPDomain = << >> /\ ret.number.Region = << >>)
    /\ ~ret.number.Valid => ret.number.Number = ret.number.Raw

\* ParseNumber has returned for a URI of the routing domain whose user part
\* is no phone number.
C15_Witness ==
  /\ fn = "ParseNumber"
  /\ ArgIsRouting
  /\ ~ArgUserIsPhone
  /\ ~ret.number.SIP
  /\ ret.number.Number = ret.number.Raw

(***************************************************************************)
(* C16.  validSIPURI returns the Required error for an empty value when    *)
(* param is not allowempty, nil for an empty value when it is, and for a   *)
(* value that is not empty what the parse of the SIP URI returns, whatever *)
(* param is.                                                               *)
(***************************************************************************)
C16_ValidSIPURI ==
  fn = "validSIPURI" =>
    /\ (arg = << >> /\ param # "allowempty") => ret = [text |-> "Required", char |-> ""]
    /\ (arg = << >> /\ param = "allowempty") => ret = NoError
    /\ arg # << >> => ret = parseSIPURI(arg).err

\* validSIPURI has returned nil for the empty value with allowempty.
C16_Witness ==
  /\ fn = "validSIPURI"
  /\ arg = << >>
  /\ param = "allowempty"
  /\ ret = NoError

C18_Digits ==
  (fn = "validateKeyPadEntry" /\ arg # << >>) =>
    LET pad == {"0", "1", "2", "3", "4", "5", "6", "7", "8", "9", "#", "*"}
        bad == {i \in 1..Len(arg) : arg[i] \notin pad}
    IN /\ ret = NoError <=> bad = {}
       /\ bad # {} =>
            ret = [text |-> "invalid: character is not allowed",
                   char |-> arg[CHOOSE i \in bad : \A j \in bad : i <= j]]

\* The validator has named the first of two different characters that are
\* not allowed, after one that is.
C18_Witness ==
  /\ fn = "validateKeyPadEntry"
  /\ arg = << "*", "b", "a" >>
  /\ ret.char = "b"

(***************************************************************************)
(* C19.  The comparison of the computed signature with the header value    *)
(* does the same work wherever the first byte that differs is: for one     *)
(* computed signature, two header values of its length that differ from it *)
(* are compared with the same work.                                        *)
(***************************************************************************)
C19_ConstantTime ==
  (fn = "compare" /\ ret.with1.differ /\ ret.with2.differ) =>
    ret.with1.work = ret.with2.work

(***************************************************************************)
(* C20.  The registry of validators is never written after the package has *)
(* initialised it, and calls of ValidatePost that run concurrently on      *)
(* Requests of their own do not disturb one another: however their steps   *)
(* interleave, each call returns the error and leaves the request and the  *)
(* Values it returns and leaves when run alone.                            *)
(***************************************************************************)
C20_Isolated ==
  /\ registry = fieldValidators
  /\ \A p \in DOMAIN procs :
       procs[p].pc = "done" =>
         /\ procs[p].err =
              ValidatePostCall(procs[p].host, procs[p].req, << >>, procs[p].token,
                               procs[p].params).err
         /\ procs[p].Values =
              ValidatePostCall(procs[p].host, procs[p].req, << >>, procs[p].token,
                               procs[p].params).Values
         /\ procs[p].r =
              ValidatePostCall(procs[p].host, procs[p].req, << >>, procs[p].token,
                               procs[p].params).r

\* A call has returned with its two values after another call had started
\* on a request with other fields and before that call has returned.
C20_Witness ==
  \E p \in DOMAIN procs : \E q \in DOMAIN procs :
    /\ procs[p].pc = "done"
    /\ procs[p].err = NilError
    /\ DOMAIN procs[p].Values = {ToName, ABName}
    /\ procs[q].pc = "validate"
    /\ DOMAIN procs[q].Values = {AName}

(***************************************************************************)
(* What the claim about later values is stated with: the forms that differ *)
(* from form in the second and later values of their fields only.          *)
(***************************************************************************)
LaterValues == {<< >>, << << "z" >> >>, << PhoneNumber, << >> >>}

SameFirstValues(form) ==
  {f \in [DOMAIN form -> UNION {{<< v >> \o t : t \in LaterValues} \cup {<< >>}
                                  : v \in {FirstValue(form, p) : p \in DOMAIN form}}] :
     \A p \in DOMAIN form :
       IF form[p] = << >> THEN f[p] = << >>
       ELSE f[p] # << >> /\ f[p][1] = form[p][1]}

(***************************************************************************)
(* C21.  Only the first value of each form field counts: a request that    *)
(* differs from the one of the first call in the second and later values   *)
(* of its fields only has the same message, gets the same error from       *)
(* ValidatePost and, when it is accepted, the same Values.                 *)
(***************************************************************************)
C21_FirstValueOnly ==
  (calls = 1 /\ Signed) =>
    \A f \in SameFirstValues(r.PostForm) :
      \A res \in {ValidatePostCall(host, [r EXCEPT !.PostForm = f], << >>, authToken,
                                   SortedParams(CHOOSE o \in RangeOrders(DOMAIN f) : TRUE))} :
        /\ res.message = message
        /\ (res.err.kind = "nil") = (err.kind = "nil")
        /\ res.err = err
        /\ res.err.kind = "nil" => res.Values = Values

\* A first call has accepted a request whose field From has two values, the
\* second of which its validator would reject.
C21_Witness ==
  /\ calls = 1
  /\ err.kind = "nil"
  /\ FromName \in DOMAIN r.PostForm
  /\ Len(r.PostForm[FromName]) = 2
  /\ CallValidator(fieldValidators[FromName], r.PostForm[FromName][2]) # NoError

(***************************************************************************)
(* C22.  No error ValidatePost returns discloses authentication material:  *)
(* the error of a signature failure does not carry the signature the call  *)
(* computed for the request under the auth token.                          *)
(***************************************************************************)
C22_NoSignatureInError ==
  (calls >= 1 /\ err.kind = "signature") =>
    err.calculated # HmacSha1Base64(authToken, message)

(***************************************************************************)
(* C23 as stated.  The validator and ParseNumber agree on SIP URIs whose   *)
(* shape is not that of the routing domain: validSIPURI returns an error   *)
(* for every non-empty value that parses as a SIP URI and that ParseNumber *)
(* does not classify as one, so every value the validator of From and To   *)
(* accepts is classified Valid by ParseNumber.                             *)
(***************************************************************************)
C23_ValidatorAgrees ==
  /\ (fn = "validSIPURI" /\ arg # << >> /\ parseSIPURI(arg).err = NoError
        /\ ~(ArgIsRouting /\ ArgUserIsPhone)) => ret # NoError
  /\ (fn = "validFromOrTo" /\ param = "" /\ arg # << >> /\ ret.err = NoError) =>
       ParseNumber(arg).Valid

(***************************************************************************)
(* C23 as amended.  The validator and ParseNumber do not agree on them:    *)
(* validSIPURI checks what parseSIPURI checks and nothing else, so for a   *)
(* non-empty value that parses as a SIP URI and has not the shape of the   *)
(* routing domain (or a user part that is no phone number) validSIPURI     *)
(* returns nil while ParseNumber, unless the phone-number check accepts    *)
(* the value, returns Valid = false.  The converse holds: every non-empty  *)
(* value ParseNumber classifies Valid is accepted by the validator of From *)
(* and To.                                                                 *)
(***************************************************************************)
C23_ValidatorLooser ==
  /\ (fn = "validSIPURI" /\ arg # << >> /\ parseSIPURI(arg).err = NoError
        /\ ~(ArgIsRouting /\ ArgUserIsPhone)) =>
       (ret = NoError /\ (~ArgIsPhone => ~ParseNumber(arg).Valid))
  /\ (fn = "validFromOrTo" /\ param = "" /\ arg # << >> /\ ParseNumber(arg).Valid) =>
       ret.err = NoError

\* validSIPURI has accepted a SIP URI of the routing domain whose user part
\* is a name, which ParseNumber does not classify as Valid.
C23_Witness ==
  /\ fn = "validSIPURI"
  /\ ArgIsRouting
  /\ parseSIPURI(arg).u.Username = << "b", "o", "b" >>
  /\ ret = NoError
  /\ ~ParseNumber(arg).Valid

(***************************************************************************)
(* C26.  parseSIPURI returns an error for every input that, lower-cased    *)
(* and with "//" put after the scheme, does not parse as a URL or parses   *)
(* with a scheme other than sip and sips, with a path, with an opaque      *)
(* part, without a host or without user information; it returns no error  *)
(* only when none of these is the case, and then the input starts with     *)
(* "sip:" or "sips:" in any case and holds an "@".  A phone number and an  *)
(* https URL are rejected.                                                 *)
(***************************************************************************)
C26_ParseSIPURI ==
  fn = "parseSIPURI" =>
    \A u \in {UrlParse(InsertSlashes(ToLower(arg)))} :
      /\ ( \/ ~u.ok
           \/ u.Scheme \notin {<< "s", "i", "p" >>, << "s", "i", "p", "s" >>}
           \/ u.Path # << >>
           \/ u.Opaque # << >>
           \/ u.Host = << >>
           \/ UserString(u) = << >> ) <=> ret.err # NoError
      /\ ret.err # NoError => ret.err = [text |-> "invalid SIP URI", char |-> ""]
      /\ ret.err = NoError =>
           /\ \/ HasPrefix(ToLower(arg), << "s", "i", "p", ":" >>)
              \/ HasPrefix(ToLower(arg), << "s", "i", "p", "s", ":" >>)
           /\ \E i \in 1..Len(arg) : arg[i] = "@"
      /\ arg = PhoneNumber => ret.err # NoError
      /\ HasPrefix(arg, << "h", "t", "t", "p", "s", ":" >>) => ret.err # NoError

\* parseSIPURI has rejected a SIP URI of the routing domain for its path.
C26_Witness ==
  /\ fn = "parseSIPURI"
  /\ HasPrefix(arg, << "s", "i", "p", "s", ":", "8" >>)
  /\ UrlParse(InsertSlashes(ToLower(arg))).ok
  /\ UrlParse(InsertSlashes(ToLower(arg))).Path = << "/", "p" >>
  /\ UrlParse(InsertSlashes(ToLower(arg))).Host # << >>
  /\ ret.err # NoError

(***************************************************************************)
(* C27.  The parse of a SIP URI does not depend on the case of any letter  *)
(* of the input: validSIPURI accepts a value exactly when it accepts the   *)
(* lower-cased value, and for a value that is no phone number ParseNumber  *)
(* returns the Valid, SIP, SIPDomain and Region it returns for the         *)
(* lower-cased value, while Raw is the value as given.                     *)
(***************************************************************************)
C27_CaseInsensitive ==
  /\ fn = "validSIPURI" =>
       (ret = NoError <=> validSIPURI(ToLower(arg), param) = NoError)
  /\ (fn = "ParseNumber" /\ ~ArgIsPhone) =>
       \A low \in {ParseNumber(ToLower(arg))} :
         /\ ret.number.Valid = low.Valid
         /\ ret.number.SIP = low.SIP
         /\ ret.number.SIPDomain = low.SIPDomain
         /\ ret.number.Region = low.Region
  /\ fn = "ParseNumber" => ret.number.Raw = arg

\* ParseNumber has classified a SIP URI written with capital letters, and
\* returned its domain in lower case and the URI as given.
C27_Witness ==
  /\ fn = "ParseNumber"
  /\ arg # ToLower(arg)
  /\ HasPrefix(arg, << "S", "I", "P", "S", ":" >>)
  /\ ret.number.SIP
  /\ ret.number.SIPDomain = << "d" >>
  /\ ret.number.Raw = arg
  /\ \E i \in 1..Len(arg) : arg[i] = "D"

(***************************************************************************)
(* What the claims about the fields a signature covers are stated with.    *)
(***************************************************************************)
\* The map of a form from the names of its fields to their first values.
FirstValues(form) == [p \in DOMAIN form |-> FirstValue(form, p)]

\* The forms a request may carry in place of the one it has: those of the
\* bodies of two segments at most.
OtherForms == {ParseQuery(b).m : b \in UNION {[1..n -> Segments] : n \in 0..2}}

\* A call with the token of the last call passes the signature step when the
\* request of the last call carries form in place of its own.
PassesWithForm(form) ==
  ValidatePostCall(host, [r EXCEPT !.PostForm = form], << >>, authToken,
                   CHOOSE o \in RangeOrders(DOMAIN form) : TRUE).err.kind # "signature"

(***************************************************************************)
(* C28 as stated.  The signature covers the fields themselves: a request   *)
(* of the same URL whose map from field names to first values differs from *)
(* that of a request that passed the signature step has another message,   *)
(* and does not pass the step with the same signature.                     *)
(***************************************************************************)
C28_FieldsAuthenticated ==
  (calls = 1 /\ Signed /\ err.kind # "signature") =>
    \A f \in OtherForms :
      FirstValues(f) # FirstValues(r.PostForm) =>
        /\ CanonicalFields(DOMAIN f, f) # CanonicalFields(DOMAIN r.PostForm, r.PostForm)
        /\ ~PassesWithForm(f)

(***************************************************************************)
(* C28 as amended.  The signature covers the message, not the fields: with *)
(* the signature of a request that passed the signature step, a request of *)
(* the same URL passes the step exactly when the names and first values of *)
(* its fields, written one after the other in ascending name order, give   *)
(* the same text.  Two different maps from names to first values can give  *)
(* the same text, as nothing separates a name from a value.                *)
(***************************************************************************)
C28_MessageAuthenticated ==
  (calls = 1 /\ Signed /\ err.kind # "signature") =>
    \A f \in OtherForms :
      PassesWithForm(f) <=>
        CanonicalFields(DOMAIN f, f) = CanonicalFields(DOMAIN r.PostForm, r.PostForm)

\* A first call has accepted a request, and its signature is accepted for a
\* request with a field of another name and another value.
C28_Witness ==
  /\ calls = 1
  /\ err.kind = "nil"
  /\ DOMAIN r.PostForm = {AName}
  /\ \E f \in OtherForms : DOMAIN f = {ABName} /\ PassesWithForm(f)

(***************************************************************************)
(* What the claims about the registered fields are stated with.            *)
(***************************************************************************)
\* The fields of the request that have a registered validator.
RegisteredFields == (DOMAIN r.PostForm) \cap (DOMAIN fieldValidators)

Required == [text |-> "Required", char |-> ""]

(***************************************************************************)
(* C29 as stated.  A request that passes the signature step and has none   *)
(* of the fields From, To and Digits passes the validation of its fields;  *)
(* a request that passes the signature step and in which one of the three  *)
(* is present with an empty first value is rejected with the Required      *)
(* error.                                                                  *)
(***************************************************************************)
C29_RequiredWhenEmpty ==
  (calls = 1 /\ Signed /\ err.kind # "signature") =>
    /\ RegisteredFields = {} => err.kind = "nil"
    /\ (\E p \in RegisteredFields : FirstValue(r.PostForm, p) = << >>) =>
         (err.kind = "field" /\ err.cause = Required)

(***************************************************************************)
(* C29 as amended.  A request that passes the signature step and has none  *)
(* of the fields From, To and Digits passes the validation of its fields;  *)
(* a request that passes the signature step and in which one of the three  *)
(* is present with an empty first value is rejected, as the registry sets  *)
(* the allow-empty option for none of them: with the Required error for    *)
(* that field when no registered field before it in ascending name order   *)
(* fails its own validator, and with the error of the first field that     *)
(* fails otherwise.                                                        *)
(***************************************************************************)
C29_ValidatedWhenPresent ==
  (calls = 1 /\ Signed /\ err.kind # "signature") =>
    /\ RegisteredFields = {} => err.kind = "nil"
    /\ \A p \in RegisteredFields :
         FirstValue(r.PostForm, p) = << >> =>
           /\ err.kind = "field"
           /\ fieldValidators[p].valParam # allowempty
           /\ p = MinString(FailingFields) =>
                (err.field = p /\ err.value = << >> /\ err.cause = Required)
           /\ p # MinString(FailingFields) =>
                (err.field = MinString(FailingFields) /\ StrLess(err.field, p))

\* A first call has rejected a correctly signed request for its empty Digits,
\* with a To that is empty as well behind it.
C29_Witness ==
  /\ calls = 1
  /\ err.kind = "field"
  /\ err.field = DigitsName
  /\ err.cause = Required
  /\ ToName \in DOMAIN r.PostForm
  /\ r.PostForm[ToName] = << << >> >>

(***************************************************************************)
(* What the claim about CallDuration is stated with.                       *)
(***************************************************************************)
\* s is a decimal integer: an optional sign and at least one digit.
IsDecimalInteger(s) ==
  /\ s # << >>
  /\ IF Head(s) \in {"+", "-"} THEN Tail(s) # << >> /\ AllDigits(Tail(s)) ELSE AllDigits(s)

\* The digits of the decimal integer s, without sign and leading zeros.
DigitsOf(s) == StripZeros(IF Head(s) \in {"+", "-"} THEN Tail(s) ELSE s)

(***************************************************************************)
(* C25.  CallDuration returns the field CallDuration as that many seconds  *)
(* and no error when the field is a decimal integer, no seconds and no     *)
(* error when the field is absent or empty, and no seconds and an error    *)
(* when the field is not empty and no integer.                             *)
(***************************************************************************)
C25_CallDuration ==
  fn = "CallDuration" =>
    \A field \in {IF CallDurationName \in DOMAIN ret.r THEN ret.r[CallDurationName]
                  ELSE << >>} :
      /\ field = << >> =>
           /\ ret.call.err = NoError
           /\ ret.call.duration = [neg |-> FALSE, seconds |-> << "0" >>, wrapped |-> FALSE]
      /\ IsDecimalInteger(field) =>
           /\ ret.call.err = NoError
           /\ ret.call.duration.seconds = DigitsOf(field)
           /\ ret.call.duration.neg = (Head(field) = "-" /\ DigitsOf(field) # << "0" >>)
           /\ ~ret.call.duration.wrapped
      /\ (field # << >> /\ ~IsDecimalInteger(field)) =>
           /\ ret.call.err # NoError
           /\ ret.call.duration = [neg |-> FALSE, seconds |-> << "0" >>, wrapped |-> FALSE]

\* The verbs given to the builder methods of the object at address a in the
\* first n builder calls, in call order.
VerbsCalled(a, n) ==
  [i \in 1..Cardinality({k \in 1..n : verbCalls[k].recv = a}) |->
     verbCalls[CHOOSE k \in 1..n :
                 /\ verbCalls[k].recv = a
                 /\ Cardinality({m \in 1..k : verbCalls[m].recv = a}) = i].verb]

\* The tree of the first n builder calls written as a literal: every object
\* holds the verbs it was given, in call order.
Literal(n) ==
  [a \in DOMAIN heap |-> [type |-> heap[a].type, Verbs |-> VerbsCalled(a, n)]]

\* The names of the elements directly below the root of a document.
TopLevel(doc) ==
  [i \in 1..Cardinality({k \in 1..Len(doc) : doc[k].indent = 1 /\ doc[k].tag # "end"}) |->
     doc[CHOOSE k \in 1..Len(doc) :
           /\ doc[k].indent = 1 /\ doc[k].tag # "end"
           /\ Cardinality({m \in 1..k : doc[m].indent = 1 /\ doc[m].tag # "end"}) = i].name]

\* Every object holds the verbs of its builder calls in call order; every
\* rendering of the response is the rendering of the literal tree of the
\* calls made, with the verbs of the Response in call order, and equal to
\* every other rendering of it.
BuiltInCallOrder ==
  /\ heap = Literal(Len(verbCalls))
  /\ \A i \in 1..Len(rendered) :
       /\ rendered[i] = Render(Literal(Len(verbCalls)))
       /\ TopLevel(rendered[i]) =
            [k \in 1..Len(VerbsCalled(1, Len(verbCalls))) |->
               VerbsCalled(1, Len(verbCalls))[k].type]
       /\ \A j \in 1..Len(rendered) : rendered[i] = rendered[j]

\* C24: every Response, Dial and Gather builder method appends exactly one
\* verb at the end of the receiver's Verbs and leaves the earlier verbs as
\* they were, so a response built by chained calls renders as the same tree
\* written as a literal, verbs in call order; Render leaves the response
\* unchanged, and rendering the same response again gives the same bytes.
C24_BuiltInCallOrder ==
  /\ []BuiltInCallOrder
  /\ [][/\ verbCalls' # verbCalls =>
             \E a \in DOMAIN heap :
               /\ Len(heap'[a].Verbs) = Len(heap[a].Verbs) + 1
               /\ SubSeq(heap'[a].Verbs, 1, Len(heap[a].Verbs)) = heap[a].Verbs
               /\ heap'[a].Verbs[Len(heap'[a].Verbs)] = verbCalls'[Len(verbCalls')].verb
               /\ \A b \in DOMAIN heap \ {a} : heap'[b] = heap[b]
        /\ Len(rendered') > Len(rendered) => heap' = heap]_vars

\* The second case of TestResponse_Render: a Dial with one Number, then a Say,
\* rendered twice.
C24_Witness ==
  /\ Len(verbCalls) = 3
  /\ heap[1].Verbs = << Verb("Dial", 2, << >>, ""),
                        Verb("Say", 0, << [name |-> "voice", uint |-> FALSE, value |-> ""],
                                          [name |-> "loop", uint |-> TRUE, value |-> "0"] >>,
                             "Failed to connect") >>
  /\ heap[2].Verbs = << Verb("Number", 0, << >>, "810-730-3842") >>
  /\ Len(rendered) = 2
  /\ rendered[2] =
       << [indent |-> 0, tag |-> "header", name |-> "xml", attrs |-> << >>, chardata |-> ""],
          [indent |-> 0, tag |-> "start", name |-> "Response", attrs |-> << >>, chardata |-> ""],
          [indent |-> 1, tag |-> "start", name |-> "Dial", attrs |-> << >>, chardata |-> ""],
          [indent |-> 2, tag |-> "element", name |-> "Number", attrs |-> << >>,
           chardata |-> "810-730-3842"],
          [indent |-> 1, tag |-> "end", name |-> "Dial", attrs |-> << >>, chardata |-> ""],
          [indent |-> 1, tag |-> "element", name |-> "Say", attrs |-> << >>,
           chardata |-> "Failed to connect"],
          [indent |-> 0, tag |-> "end", name |-> "Response", attrs |-> << >>, chardata |-> ""] >>

\* The number of times the name occurs in the list.
Occurrences(list, name) == Cardinality({i \in 1..Len(list) : list[i] = name})

\* The words of a string between its spaces.
Words(s) == Split(s, " ")

\* C30: after one or more event methods applied to ConferenceCallbackEvents(),
\* the string is the lower-case names of the methods in call order joined by
\* single spaces, with no space at either end, and a method called again adds
\* its name again.
C30_EventsInCallOrder ==
  eventCalls # << >> =>
    /\ events = Join([i \in 1..Len(eventCalls) |-> ToLower(eventCalls[i])], << " " >>)
    /\ Head(events) # " "
    /\ events[Len(events)] # " "
    /\ \A i \in 1..(Len(events) - 1) : ~(events[i] = " " /\ events[i + 1] = " ")
    /\ Len(Words(events)) = Len(eventCalls)
    /\ \A i \in 1..Len(eventCalls) :
         Occurrences(Words(events), ToLower(eventCalls[i])) = Occurrences(eventCalls, eventCalls[i])

\* Start, Start and End were called.
C30_Witness ==
  /\ eventCalls = << << "S", "t", "a", "r", "t" >>, << "S", "t", "a", "r", "t" >>,
                     << "E", "n", "d" >> >>
  /\ events = << "s", "t", "a", "r", "t", " ", "s", "t", "a", "r", "t", " ", "e", "n", "d" >>

====
